---- MODULE Spec2Model ----
(***************************************************************************)
(* Hierarchical time-wheel scheduler of libshkwon:                         *)
(*   TimeoutJob          include/shkwon/time_wheel_scheduler/timeout_job.hpp *)
(*   TimeWheel           include/shkwon/TimeWheelScheduler/TimeWheel.hpp     *)
(*   TimeWheelScheduler  include/shkwon/time_wheel_scheduler/               *)
(*                       time_wheel_scheduler.hpp                           *)
(*                                                                         *)
(* Every public operation of the scheduler takes mutex_ for its whole body, *)
(* and the driver holds mutex_ for a whole tick, so each is one atomic      *)
(* action.  The wall clock (GetNowTimestamp) is the variable now; it is     *)
(* counted from the construction of the scheduler.  sleep_until only gives  *)
(* a lower bound for the time of the next tick, so a tick may be late.      *)
(***************************************************************************)
EXTENDS Integers, Sequences, FiniteSets, TLC

VARIABLES
    now,                      \* GetNowTimestamp(), ms since construction
    interval_in_millisecond_, \* the scheduler's tick interval
    timewheels_,              \* vector<TimeWheelPtr>: front() greatest, back() least
    heap,                     \* the TimeoutJob objects; a TimerPtr is an index
    timer_id_,                \* next id
    canceled_timer_ids_,      \* unordered_set<uint32_t>
    restart_timer_infos_,     \* unordered_map<uint32_t, int64_t>
    stop_flag_,
    thread_,                  \* "none" | "running" | "exited" | "terminated"; "thrown": no object
    stop_pc,                  \* a caller inside Stop(): "idle" | "join"
    wake_at,                  \* the driver's sleep_until target
    pushed,                   \* log of thread_pool_->Push calls
    tick_no,                  \* number of driver ticks so far
    created,                  \* per TimeoutJob: how it was registered
    cancel_ever,              \* ids CancelTimer was ever called with
    reset_ever,               \* ids ResetTimerAt/After was ever called with
    reset_applied,            \* TimerPtrs a pending reset was applied to
    discarded,                \* TimerPtrs dropped by a pending cancel
    calls,                    \* number of CreateTimer*, ResetTimer*, CancelTimer calls
    last_req,                 \* per id: the request made last, "cancel" or "reset"
    ret,                      \* value returned by the last CreateTimer* call (for a
                              \* call of a TimeWheel method: the wheel it was called on)
    op,                       \* the public operation called last
    applied,                  \* log of the pending resets the driver applied
    start_ret,                \* value returned by the last Start(): "none" | "true" | "false"
    mutex_,                   \* holder of the scheduler's mutex_, or "free"
    mtx_job_q_,               \* holder of the pool's mtx_job_q_, or "free"
    jobs_,                    \* the pool's queue: the jobs in the order of their Push
    pc,                       \* per thread: where it is in its code
    stop_all_,                \* ThreadPool::stop_all_
    cv_job_q_,                \* the workers blocked in cv_job_q_.wait
    enqueued,                 \* log of the jobs Push put into jobs_
    taken,                    \* log of the jobs the workers took from jobs_
    ran,                      \* log of the jobs the workers ran
    reader_count_,            \* StarveFreeLock::reader_count_
    writer_waiting_count_,    \* StarveFreeLock::writer_waiting_count_
    writing_,                 \* StarveFreeLock::writing_
    reader_cv_,               \* the threads blocked in reader_cv_.wait
    writer_cv_,               \* the threads blocked in writer_cv_.wait
    thread_pool_              \* unique_ptr<ThreadPool>: "nullptr" or the pool it owns

vars == <<now, interval_in_millisecond_, timewheels_, heap, timer_id_,
          canceled_timer_ids_, restart_timer_infos_, stop_flag_, thread_,
          stop_pc, wake_at, pushed, tick_no, created, cancel_ever, reset_ever,
          reset_applied, discarded, calls, last_req, ret, op, applied,
          start_ret, mutex_, mtx_job_q_, jobs_, pc, stop_all_, cv_job_q_, enqueued,
          taken,          ran, reader_count_, writer_waiting_count_, writing_, reader_cv_, writer_cv_,
          thread_pool_>>

\* The variables of the lock-level view of the threads.
lockvars == <<mutex_, mtx_job_q_, jobs_, pc>>

\* The other variables of the ThreadPool, and the variables of the
\* StarveFreeLock.
poolvars == <<stop_all_, cv_job_q_, enqueued, taken, ran>>
sflvars == <<reader_count_, writer_waiting_count_, writing_, reader_cv_, writer_cv_>>

\* The variables of the scheduler's data.
datavars == <<now, interval_in_millisecond_, timewheels_, heap, timer_id_,
              canceled_timer_ids_, restart_timer_infos_, stop_flag_, thread_,
              stop_pc, wake_at, pushed, tick_no, created, cancel_ever, reset_ever,
              reset_applied, discarded, calls, last_req, ret, op, applied, start_ret>>

(***************************************************************************)
(* Bounds of the model.                                                    *)
(***************************************************************************)
MaxTimers == 2
MaxTime == 8
MaxCalls == 3
MaxTimeE2E == 600
MaxTimeCascade == 3700
MaxTimeReset == 12
MaxTimeStop == 6
MaxJobs == 2
MaxTimeAny == 2
MaxTimeWrap == 8
MaxTimeStale == 6
MaxTimeWheel == 3
MaxTimeLate == 8
MaxJobCalls == 5
MaxPushes == 3
MaxTimeBoth == 8
MaxWheelTimers == 1
\* Width of the constructor's uint32_t parameter in the model.
IntervalBits == 6
\* Width of timer_id_ in the model; the code's uint32_t has 32 bits.
IdBits == 3

\* Level parameters (slot count, slot span) in the order of the AppendTimeWheel
\* calls: the wheel appended first is the greatest one.
Levels == <<[slot_num |-> 2, interval |-> 4], [slot_num |-> 2, interval |-> 2]>>
LevelsE2E == <<[slot_num |-> 10, interval |-> 100]>>
LevelsCascade == <<[slot_num |-> 10, interval |-> 1000], [slot_num |-> 10, interval |-> 100]>>

Min(a, b) == IF a < b THEN a ELSE b
Range(s) == {s[k] : k \in 1..Len(s)}
Without(f, x) == [y \in DOMAIN f \ {x} |-> f[y]]
With(f, x, v) == [y \in DOMAIN f \cup {x} |-> IF y = x THEN v ELSE f[y]]

(***************************************************************************)
(* TimeoutJob                                                              *)
(***************************************************************************)
TimeoutJob(id, when, interval) ==
    [id_ |-> id, when_ |-> when, interval_ |-> interval, is_repeated_ |-> interval > 0]

UpdateExpirationTimeResample(job, new_when) ==
    [job EXCEPT !.when_ = IF new_when > 0 THEN new_when ELSE now + job.interval_]

UpdateExpirationTime(job, new_when) ==
    [job EXCEPT !.when_ = IF new_when > 0 THEN new_when ELSE job.when_ + job.interval_]

(***************************************************************************)
(* TimeWheel.  The neighbour pointers are indices into timewheels_, 0 for  *)
(* nullptr.                                                                *)
(***************************************************************************)
TimeWheel(total_slot_num, interval) ==
    [slot_num_ |-> total_slot_num,
     interval_in_millisecond_ |-> interval,
     curr_slot_idx_ |-> 0,
     slots_ |-> [k \in 0..(total_slot_num - 1) |-> <<>>],
     less_level_timewheel_ |-> 0,
     greater_level_timewheel_ |-> 0]

\* A GetCurrentTime that goes up to the greater-level wheels.
RECURSIVE GetCurrentTimeGreater(_, _)
GetCurrentTimeGreater(tw, i) ==
    LET time == tw[i].curr_slot_idx_ * tw[i].interval_in_millisecond_
    IN  IF tw[i].greater_level_timewheel_ # 0
        THEN time + GetCurrentTimeGreater(tw, tw[i].greater_level_timewheel_)
        ELSE time

RECURSIVE GetCurrentTime(_, _)
GetCurrentTime(tw, i) ==
    LET time == tw[i].curr_slot_idx_ * tw[i].interval_in_millisecond_
    IN  IF tw[i].less_level_timewheel_ # 0
        THEN time + GetCurrentTime(tw, tw[i].less_level_timewheel_)
        ELSE time

\* An AddTimer that leaves out the time of the less-level wheels.
RECURSIVE AddTimerNoOffset(_, _, _, _, _)
AddTimerNoOffset(tw, i, timer, hp, clock) ==
    LET w == tw[i]
        diff == hp[timer].when_ - clock
    IN  IF diff >= w.interval_in_millisecond_
        THEN LET n == (w.curr_slot_idx_ + (diff \div w.interval_in_millisecond_)) % w.slot_num_
             IN  [tw EXCEPT ![i].slots_[n] = Append(@, timer)]
        ELSE IF w.less_level_timewheel_ # 0
        THEN AddTimerNoOffset(tw, w.less_level_timewheel_, timer, hp, clock)
        ELSE [tw EXCEPT ![i].slots_[w.curr_slot_idx_] = Append(@, timer)]

RECURSIVE AddTimer(_, _, _, _, _)
AddTimer(tw, i, timer, hp, clock) ==
    LET w == tw[i]
        less_level_time == IF w.less_level_timewheel_ # 0
                           THEN GetCurrentTime(tw, w.less_level_timewheel_)
                           ELSE 0
        diff == hp[timer].when_ + less_level_time - clock
    IN  IF diff >= w.interval_in_millisecond_
        THEN LET n == (w.curr_slot_idx_ + (diff \div w.interval_in_millisecond_)) % w.slot_num_
             IN  [tw EXCEPT ![i].slots_[n] = Append(@, timer)]
        ELSE IF w.less_level_timewheel_ # 0
        THEN AddTimer(tw, w.less_level_timewheel_, timer, hp, clock)
        ELSE [tw EXCEPT ![i].slots_[w.curr_slot_idx_] = Append(@, timer)]

\* The list PopCurrentSlot returns, and the wheels after it has been moved out.
CurrentSlot(tw, i) == tw[i].slots_[tw[i].curr_slot_idx_]

PopCurrentSlotCopy(tw, i) == tw

PopCurrentSlot(tw, i) == [tw EXCEPT ![i].slots_[tw[i].curr_slot_idx_] = <<>>]

RECURSIVE AddTimers(_, _, _, _, _)
AddTimers(tw, i, slot, hp, clock) ==
    IF slot = <<>> THEN tw
    ELSE AddTimers(AddTimer(tw, i, Head(slot), hp, clock), i, Tail(slot), hp, clock)

\* An Increase that takes the slot of the greater wheel and does not add its
\* timers again.
RECURSIVE IncreaseDropping(_, _, _, _)
IncreaseDropping(tw, i, hp, clock) ==
    LET idx == tw[i].curr_slot_idx_ + 1
    IN  IF idx < tw[i].slot_num_
        THEN [tw EXCEPT ![i].curr_slot_idx_ = idx]
        ELSE LET tw1 == [tw EXCEPT ![i].curr_slot_idx_ = idx % tw[i].slot_num_]
                 g == tw[i].greater_level_timewheel_
             IN  IF g # 0
                 THEN PopCurrentSlot(IncreaseDropping(tw1, g, hp, clock), g)
                 ELSE tw1

RECURSIVE Increase(_, _, _, _)
Increase(tw, i, hp, clock) ==
    LET idx == tw[i].curr_slot_idx_ + 1
    IN  IF idx < tw[i].slot_num_
        THEN [tw EXCEPT ![i].curr_slot_idx_ = idx]
        ELSE LET tw1 == [tw EXCEPT ![i].curr_slot_idx_ = idx % tw[i].slot_num_]
                 g == tw[i].greater_level_timewheel_
             IN  IF g # 0
                 THEN LET tw2 == Increase(tw1, g, hp, clock)
                      IN  AddTimers(PopCurrentSlot(tw2, g), i, CurrentSlot(tw2, g), hp, clock)
                 ELSE tw1

(***************************************************************************)
(* TimeWheelScheduler                                                      *)
(***************************************************************************)
\* The threads of the lock-level view: the driver thread_, a worker of the
\* pool that runs callbacks, and a thread of the application.
Threads == {"driver", "worker", "caller"}

GetGreatestTimeWheel == 1
GetLeastTimeWheel == Len(timewheels_)

\* The members after the constructor's initialiser list.
\* ThreadPool(size_t num_threads): stop_all_(false), an empty queue, nobody
\* waits yet and nothing was taken or run.
PoolMembers ==
    /\ stop_all_ = FALSE
    /\ cv_job_q_ = {}
    /\ enqueued = <<>>
    /\ taken = <<>>
    /\ ran = <<>>

\* StarveFreeLock(): reader_count_(0), writer_waiting_count_(0),
\* writing_(false).
LockMembers ==
    /\ reader_count_ = 0
    /\ writer_waiting_count_ = 0
    /\ writing_ = FALSE
    /\ reader_cv_ = {}
    /\ writer_cv_ = {}

\* The objects after construction, with the threads that will use them.
Objects(interval, thread, threads) ==
    /\ now = 0
    /\ interval_in_millisecond_ = interval
    /\ timewheels_ = <<>>
    /\ heap = <<>>
    /\ timer_id_ = 1
    /\ canceled_timer_ids_ = {}
    /\ restart_timer_infos_ = [id \in {} |-> 0]
    /\ stop_flag_ = FALSE
    /\ thread_ = thread
    /\ stop_pc = "idle"
    /\ wake_at = 0
    /\ pushed = <<>>
    /\ tick_no = 0
    /\ created = <<>>
    /\ cancel_ever = {}
    /\ reset_ever = {}
    /\ reset_applied = {}
    /\ discarded = {}
    /\ calls = 0
    /\ last_req = [id \in {} |-> ""]
    /\ ret = 0
    /\ op = ""
    /\ applied = <<>>
    /\ start_ret = "none"
    /\ thread_pool_ = "nullptr"
    /\ mutex_ = "free"
    /\ mtx_job_q_ = "free"
    /\ jobs_ = <<>>
    /\ PoolMembers
    /\ LockMembers
    /\ pc = [t \in threads |-> "idle"]

Members(interval, thread) == Objects(interval, thread, Threads)

\* A constructor without the check of the interval.
ConstructUnchecked(interval) == Members(interval, "none")

\* TimeWheelScheduler(interval): throws std::invalid_argument when the interval
\* is below 1 (no object exists then), otherwise the scheduler is not started.
Construct(interval) == Members(interval, IF interval < 1 THEN "thrown" ELSE "none")

Alive == thread_ \notin {"terminated", "thrown"}

\* An AppendTimeWheel that links the new wheel as the greater neighbour.
AppendTimeWheelGreater(total_slot_num, interval) ==
    /\ Alive
    /\ LET curr == TimeWheel(total_slot_num, interval)
           n == Len(timewheels_)
       IN  IF n = 0
           THEN timewheels_' = <<curr>>
           ELSE timewheels_' =
                    Append([timewheels_ EXCEPT ![n].greater_level_timewheel_ = n + 1],
                           [curr EXCEPT !.less_level_timewheel_ = n])
    /\ UNCHANGED <<now, interval_in_millisecond_, heap, timer_id_, canceled_timer_ids_,
                   restart_timer_infos_, stop_flag_, thread_, stop_pc, wake_at, pushed,
                   tick_no, created, cancel_ever, reset_ever, reset_applied, discarded, calls,
                   last_req>>
    /\ UNCHANGED <<ret, op, applied, start_ret>>
    /\ UNCHANGED <<lockvars, poolvars, sflvars, thread_pool_>>

AppendTimeWheel(total_slot_num, interval) ==
    /\ Alive
    /\ LET curr == TimeWheel(total_slot_num, interval)
           n == Len(timewheels_)
       IN  IF n = 0
           THEN timewheels_' = <<curr>>
           ELSE timewheels_' =
                    Append([timewheels_ EXCEPT ![n].less_level_timewheel_ = n + 1],
                           [curr EXCEPT !.greater_level_timewheel_ = n])
    /\ UNCHANGED <<now, interval_in_millisecond_, heap, timer_id_, canceled_timer_ids_,
                   restart_timer_infos_, stop_flag_, thread_, stop_pc, wake_at, pushed,
                   tick_no, created, cancel_ever, reset_ever, reset_applied, discarded, calls,
                   last_req>>
    /\ UNCHANGED <<ret, op, applied, start_ret>>
    /\ UNCHANGED <<lockvars, poolvars, sflvars, thread_pool_>>

\* The body shared by CreateTimerAt and CreateTimerEvery: a new TimeoutJob is
\* added at the greatest wheel and timer_id_ is returned and then incremented.
Register(when, interval, via) ==
    /\ Alive
    /\ calls < MaxCalls
    /\ calls' = calls + 1
    /\ timewheels_ # <<>>
    /\ Len(heap) < MaxTimers
    /\ LET timer == Len(heap) + 1
           hp == Append(heap, TimeoutJob(timer_id_, when, interval))
       IN  /\ heap' = hp
           /\ timewheels_' = AddTimer(timewheels_, GetGreatestTimeWheel, timer, hp, now)
           /\ created' = Append(created, [id |-> timer_id_, at |-> now, when |-> when,
                                          interval |-> interval,
                                          levels |-> Len(timewheels_),
                                          tick |-> tick_no,
                                          running |-> thread_ = "running" /\ ~stop_flag_])
    /\ timer_id_' = (timer_id_ + 1) % (2 ^ IdBits)
    /\ UNCHANGED <<now, interval_in_millisecond_, canceled_timer_ids_, restart_timer_infos_,
                   stop_flag_, thread_, stop_pc, wake_at, pushed, tick_no, cancel_ever,
                   reset_ever, reset_applied, discarded,
                   last_req>>
    /\ ret' = timer_id_
    /\ op' = via
    /\ UNCHANGED <<applied, start_ret>>
    /\ UNCHANGED <<lockvars, poolvars, sflvars, thread_pool_>>

ReturnZeroAdvancing(via) ==
    /\ Alive
    /\ calls < MaxCalls
    /\ calls' = calls + 1
    /\ timewheels_ = <<>>
    /\ ret' = 0
    /\ op' = via
    /\ timer_id_' = (timer_id_ + 1) % (2 ^ IdBits)
    /\ UNCHANGED <<now, interval_in_millisecond_, timewheels_, heap,
                   canceled_timer_ids_, restart_timer_infos_, stop_flag_, thread_, stop_pc,
                   wake_at, pushed, tick_no, created, cancel_ever, reset_ever,
                   reset_applied, discarded, last_req, applied, start_ret>>
    /\ UNCHANGED <<lockvars, poolvars, sflvars, thread_pool_>>

\* CreateTimerAt and CreateTimerEvery with timewheels_ empty: 0 is returned.
ReturnZero(via) ==
    /\ Alive
    /\ calls < MaxCalls
    /\ calls' = calls + 1
    /\ timewheels_ = <<>>
    /\ ret' = 0
    /\ op' = via
    /\ UNCHANGED <<now, interval_in_millisecond_, timewheels_, heap, timer_id_,
                   canceled_timer_ids_, restart_timer_infos_, stop_flag_, thread_, stop_pc,
                   wake_at, pushed, tick_no, created, cancel_ever, reset_ever,
                   reset_applied, discarded, last_req, applied, start_ret>>
    /\ UNCHANGED <<lockvars, poolvars, sflvars, thread_pool_>>

CreateTimerAt(when) ==
    IF timewheels_ = <<>>
    THEN ReturnZero("CreateTimerAt")
    ELSE Register(when, 0, "CreateTimerAt")

CreateTimerAfter(delay) == CreateTimerAt(now + delay)

CreateTimerEvery(interval) ==
    IF timewheels_ = <<>>
    THEN ReturnZero("CreateTimerEvery")
    ELSE Register(now + interval, interval, "CreateTimerEvery")

\* A ResetTimerAt that applies the due time to the job at once.
ResetTimerAtEager(id, when) ==
    /\ Alive
    /\ calls < MaxCalls
    /\ calls' = calls + 1
    /\ restart_timer_infos_' = With(restart_timer_infos_, id, when)
    /\ heap' = [timer \in DOMAIN heap |->
                   IF heap[timer].id_ = id
                   THEN UpdateExpirationTime(heap[timer], when)
                   ELSE heap[timer]]
    /\ reset_ever' = reset_ever \cup {id}
    /\ last_req' = With(last_req, id, "reset")
    /\ UNCHANGED <<now, interval_in_millisecond_, timewheels_, timer_id_,
                   canceled_timer_ids_, stop_flag_, thread_, stop_pc, wake_at, pushed,
                   tick_no, created, cancel_ever, reset_applied, discarded>>
    /\ op' = "ResetTimerAt"
    /\ UNCHANGED <<ret, applied, start_ret>>
    /\ UNCHANGED <<lockvars, poolvars, sflvars, thread_pool_>>

ResetTimerAt(id, when) ==
    /\ Alive
    /\ calls < MaxCalls
    /\ calls' = calls + 1
    /\ restart_timer_infos_' = With(restart_timer_infos_, id, when)
    /\ reset_ever' = reset_ever \cup {id}
    /\ last_req' = With(last_req, id, "reset")
    /\ UNCHANGED <<now, interval_in_millisecond_, timewheels_, heap, timer_id_,
                   canceled_timer_ids_, stop_flag_, thread_, stop_pc, wake_at, pushed,
                   tick_no, created, cancel_ever, reset_applied, discarded>>
    /\ op' = "ResetTimerAt"
    /\ UNCHANGED <<ret, applied, start_ret>>
    /\ UNCHANGED <<lockvars, poolvars, sflvars, thread_pool_>>

ResetTimerAfter(id, delay) == ResetTimerAt(id, now + delay)

CancelTimerExclusive(id) ==
    /\ Alive
    /\ calls < MaxCalls
    /\ calls' = calls + 1
    /\ canceled_timer_ids_' = canceled_timer_ids_ \cup {id}
    /\ restart_timer_infos_' = Without(restart_timer_infos_, id)
    /\ cancel_ever' = cancel_ever \cup {id}
    /\ last_req' = With(last_req, id, "cancel")
    /\ UNCHANGED <<now, interval_in_millisecond_, timewheels_, heap, timer_id_,
                   stop_flag_, thread_, stop_pc, wake_at, pushed,
                   tick_no, created, reset_ever, reset_applied, discarded>>
    /\ op' = "CancelTimer"
    /\ UNCHANGED <<ret, applied, start_ret>>
    /\ UNCHANGED <<lockvars, poolvars, sflvars, thread_pool_>>

CancelTimer(id) ==
    /\ Alive
    /\ calls < MaxCalls
    /\ calls' = calls + 1
    /\ canceled_timer_ids_' = canceled_timer_ids_ \cup {id}
    /\ cancel_ever' = cancel_ever \cup {id}
    /\ last_req' = With(last_req, id, "cancel")
    /\ UNCHANGED <<now, interval_in_millisecond_, timewheels_, heap, timer_id_,
                   restart_timer_infos_, stop_flag_, thread_, stop_pc, wake_at, pushed,
                   tick_no, created, reset_ever, reset_applied, discarded>>
    /\ op' = "CancelTimer"
    /\ UNCHANGED <<ret, applied, start_ret>>
    /\ UNCHANGED <<lockvars, poolvars, sflvars, thread_pool_>>

(***************************************************************************)
(* The driver thread: one iteration of the loop of Start() with stop_flag_ *)
(* clear is DriverTick.  The loop body works on the record st.              *)
(***************************************************************************)
\* How many pushes of the timer the log holds.
PushLogCount(log, timer) == Cardinality({k \in 1..Len(log) : log[k].timer = timer})

PushEntry(st, timer, clock) ==
    [timer |-> timer,
     id |-> st.heap[timer].id_,
     at |-> clock,
     when |-> st.heap[timer].when_,
     cancel_requested |-> st.heap[timer].id_ \in cancel_ever]

\* Lines 180-187: a pending reset is applied and the timer added again.
ApplyReset(st, timer, clock) ==
    LET id == st.heap[timer].id_
        hp == [st.heap EXCEPT ![timer] = UpdateExpirationTime(@, st.restart[id])]
    IN  [st EXCEPT !.heap = hp,
                   !.tw = AddTimer(st.tw, GetGreatestTimeWheel, timer, hp, clock),
                   !.restart = Without(st.restart, id),
                   !.reset_applied = @ \cup {timer},
                   !.applied = Append(@, [timer |-> timer,
                                          when |-> st.restart[id],
                                          pushes |-> PushLogCount(st.pushed, timer)])]

\* Lines 189-194: a pending cancel drops the timer.
ApplyCancel(st, timer) ==
    [st EXCEPT !.canceled = @ \ {st.heap[timer].id_},
               !.discarded = @ \cup {timer}]

\* A dispatch that adds every pushed timer again, repeated or not.
DispatchReAddAll(st, timer, clock) ==
    LET st1 == [st EXCEPT !.pushed = Append(@, PushEntry(st, timer, clock))]
        hp == [st.heap EXCEPT ![timer] = UpdateExpirationTime(@, 0)]
    IN  [st1 EXCEPT !.heap = hp,
                    !.tw = AddTimer(st.tw, GetGreatestTimeWheel, timer, hp, clock)]

\* A dispatch that pushes the task and adds no timer again.
DispatchOnce(st, timer, clock) ==
    [st EXCEPT !.pushed = Append(@, PushEntry(st, timer, clock))]

\* Lines 196-202: the task is pushed; a repeated timer is added again.
Dispatch(st, timer, clock) ==
    LET st1 == [st EXCEPT !.pushed = Append(@, PushEntry(st, timer, clock))]
    IN  IF st.heap[timer].is_repeated_
        THEN LET hp == [st.heap EXCEPT ![timer] = UpdateExpirationTime(@, 0)]
             IN  [st1 EXCEPT !.heap = hp,
                             !.tw = AddTimer(st.tw, GetGreatestTimeWheel, timer, hp, clock)]
        ELSE st1

ProcessTimerCancelResets(st, timer, clock) ==
    LET id == st.heap[timer].id_
    IN  IF id \in DOMAIN st.restart
        THEN [ApplyReset(st, timer, clock) EXCEPT !.canceled = @ \ {id}]
        ELSE IF id \in st.canceled
        THEN ApplyCancel(st, timer)
        ELSE Dispatch(st, timer, clock)

ProcessTimerFallThrough(st, timer, clock) ==
    LET id == st.heap[timer].id_
        st1 == IF id \in DOMAIN st.restart THEN ApplyReset(st, timer, clock) ELSE st
    IN  IF id \in st1.canceled
        THEN ApplyCancel(st1, timer)
        ELSE Dispatch(st1, timer, clock)

ProcessTimerCancelFirst(st, timer, clock) ==
    LET id == st.heap[timer].id_
    IN  IF id \in st.canceled
        THEN ApplyCancel(st, timer)
        ELSE IF id \in DOMAIN st.restart
        THEN ApplyReset(st, timer, clock)
        ELSE Dispatch(st, timer, clock)

ProcessTimer(st, timer, clock) ==
    LET id == st.heap[timer].id_
    IN  IF id \in DOMAIN st.restart
        THEN ApplyReset(st, timer, clock)
        ELSE IF id \in st.canceled
        THEN ApplyCancel(st, timer)
        ELSE Dispatch(st, timer, clock)

RECURSIVE ProcessSlot(_, _, _)
ProcessSlot(st, slot, clock) ==
    IF slot = <<>> THEN st
    ELSE ProcessSlot(ProcessTimer(st, Head(slot), clock), Tail(slot), clock)

\* The wheels after Increase() of the least wheel, before PopCurrentSlot().
Increased == Increase(timewheels_, GetLeastTimeWheel, heap, now)

\* The slot the driver pops in a tick taken in the current state.
PoppedSlot == CurrentSlot(Increased, GetLeastTimeWheel)

TickResult ==
    ProcessSlot([tw |-> PopCurrentSlot(Increased, GetLeastTimeWheel),
                 heap |-> heap,
                 canceled |-> canceled_timer_ids_,
                 restart |-> restart_timer_infos_,
                 pushed |-> pushed,
                 reset_applied |-> reset_applied,
                 discarded |-> discarded,
                 applied |-> applied],
                PoppedSlot, now)

\* A Start() that reports success also when there is no wheel.
\* Line 161, std::make_unique<ThreadPool>(10): a pool that is not the one
\* thread_pool_ owns now (the assignment destroys that one).
MakePool == IF thread_pool_ = "pool1" THEN "pool2" ELSE "pool1"

StartClearingFlag ==
    /\ Alive
    /\ IF timewheels_ = <<>>
       THEN /\ start_ret' = "false"
            /\ UNCHANGED <<thread_, wake_at, stop_flag_, thread_pool_>>
       ELSE IF thread_ = "none"
       THEN /\ thread_' = "running"
            /\ wake_at' = now
            /\ start_ret' = "true"
            /\ thread_pool_' = MakePool
            /\ stop_flag_' = FALSE
       ELSE /\ thread_' = "terminated"
            /\ thread_pool_' = MakePool
            /\ UNCHANGED <<wake_at, start_ret, stop_flag_>>
    /\ UNCHANGED <<now, interval_in_millisecond_, timewheels_, heap, timer_id_,
                   canceled_timer_ids_, restart_timer_infos_, stop_pc, pushed,
                   tick_no, created, cancel_ever, reset_ever, reset_applied, discarded, calls,
                   last_req>>
    /\ UNCHANGED <<ret, op, applied>>
    /\ UNCHANGED <<lockvars, poolvars, sflvars>>

StartAlwaysTrue ==
    /\ Alive
    /\ IF timewheels_ = <<>>
       THEN /\ start_ret' = "true"
            /\ UNCHANGED <<thread_, wake_at, thread_pool_>>
       ELSE IF thread_ = "none"
       THEN /\ thread_' = "running"
            /\ wake_at' = now
            /\ start_ret' = "true"
            /\ thread_pool_' = MakePool
       ELSE /\ thread_' = "terminated"
            /\ thread_pool_' = MakePool
            /\ UNCHANGED <<wake_at, start_ret>>
    /\ UNCHANGED <<now, interval_in_millisecond_, timewheels_, heap, timer_id_,
                   canceled_timer_ids_, restart_timer_infos_, stop_flag_, stop_pc, pushed,
                   tick_no, created, cancel_ever, reset_ever, reset_applied, discarded, calls,
                   last_req>>
    /\ UNCHANGED <<ret, op, applied>>
    /\ UNCHANGED <<lockvars, poolvars, sflvars>>

Start ==
    /\ Alive
    /\ IF timewheels_ = <<>>
       THEN /\ start_ret' = "false"
            /\ UNCHANGED <<thread_, wake_at, thread_pool_>>
       ELSE IF thread_ = "none"
       THEN /\ thread_' = "running"
            /\ wake_at' = now
            /\ start_ret' = "true"
            /\ thread_pool_' = MakePool
       ELSE \* thread_ is joinable: assigning to it calls std::terminate
            /\ thread_' = "terminated"
            /\ thread_pool_' = MakePool
            /\ UNCHANGED <<wake_at, start_ret>>
    /\ UNCHANGED <<now, interval_in_millisecond_, timewheels_, heap, timer_id_,
                   canceled_timer_ids_, restart_timer_infos_, stop_flag_, stop_pc, pushed,
                   tick_no, created, cancel_ever, reset_ever, reset_applied, discarded, calls,
                   last_req>>
    /\ UNCHANGED <<ret, op, applied>>
    /\ UNCHANGED <<lockvars, poolvars, sflvars>>

DriverTick ==
    /\ thread_ = "running"
    /\ now >= wake_at
    /\ ~stop_flag_
    /\ LET st == TickResult
       IN  /\ timewheels_' = st.tw
           /\ heap' = st.heap
           /\ canceled_timer_ids_' = st.canceled
           /\ restart_timer_infos_' = st.restart
           /\ pushed' = st.pushed
           /\ reset_applied' = st.reset_applied
           /\ discarded' = st.discarded
           /\ applied' = st.applied
    /\ tick_no' = tick_no + 1
    /\ wake_at' = now + interval_in_millisecond_
    /\ UNCHANGED <<now, interval_in_millisecond_, timer_id_, stop_flag_, thread_, stop_pc,
                   created, cancel_ever, reset_ever, calls,
                   last_req>>
    /\ UNCHANGED <<ret, op, start_ret>>
    /\ UNCHANGED <<lockvars, poolvars, sflvars, thread_pool_>>

DriverExit ==
    /\ thread_ = "running"
    /\ now >= wake_at
    /\ stop_flag_
    /\ thread_' = "exited"
    /\ UNCHANGED <<now, interval_in_millisecond_, timewheels_, heap, timer_id_,
                   canceled_timer_ids_, restart_timer_infos_, stop_flag_, stop_pc, wake_at,
                   pushed, tick_no, created, cancel_ever, reset_ever, reset_applied,
                   discarded, calls,
                   last_req>>
    /\ UNCHANGED <<ret, op, applied, start_ret>>
    /\ UNCHANGED <<lockvars, poolvars, sflvars, thread_pool_>>

StopNoFlag ==
    /\ Alive
    /\ stop_pc = "idle"
    /\ thread_ # "none"
    /\ stop_pc' = "join"
    /\ UNCHANGED <<now, interval_in_millisecond_, timewheels_, heap, timer_id_,
                   canceled_timer_ids_, restart_timer_infos_, stop_flag_, thread_, wake_at,
                   pushed, tick_no, created, cancel_ever, reset_ever, reset_applied,
                   discarded, calls, last_req, ret, op, applied, start_ret>>
    /\ UNCHANGED <<lockvars, poolvars, sflvars, thread_pool_>>

\* Stop(): the flag is set under mutex_, then the caller joins thread_.
Stop ==
    /\ Alive
    /\ stop_pc = "idle"
    /\ thread_ # "none"
    /\ stop_flag_' = TRUE
    /\ stop_pc' = "join"
    /\ UNCHANGED <<now, interval_in_millisecond_, timewheels_, heap, timer_id_,
                   canceled_timer_ids_, restart_timer_infos_, thread_, wake_at, pushed,
                   tick_no, created, cancel_ever, reset_ever, reset_applied, discarded, calls,
                   last_req>>
    /\ UNCHANGED <<ret, op, applied, start_ret>>
    /\ UNCHANGED <<lockvars, poolvars, sflvars, thread_pool_>>

StopJoin ==
    /\ stop_pc = "join"
    /\ thread_ = "exited"
    /\ thread_' = "none"
    /\ stop_pc' = "idle"
    /\ UNCHANGED <<now, interval_in_millisecond_, timewheels_, heap, timer_id_,
                   canceled_timer_ids_, restart_timer_infos_, stop_flag_, wake_at, pushed,
                   tick_no, created, cancel_ever, reset_ever, reset_applied, discarded, calls,
                   last_req>>
    /\ UNCHANGED <<ret, op, applied, start_ret>>
    /\ UNCHANGED <<lockvars, poolvars, sflvars, thread_pool_>>

\* The wall clock advances by step, up to the horizon of the model.  A running
\* driver is scheduled at most one step after the time it sleeps until.
Advance(step, horizon) ==
    /\ Alive
    /\ now + step <= horizon
    /\ thread_ = "running" => now < wake_at + step
    /\ now' = now + step
    /\ UNCHANGED <<interval_in_millisecond_, timewheels_, heap, timer_id_,
                   canceled_timer_ids_, restart_timer_infos_, stop_flag_, thread_, stop_pc,
                   wake_at, pushed, tick_no, created, cancel_ever, reset_ever,
                   reset_applied, discarded, calls,
                   last_req>>
    /\ UNCHANGED <<ret, op, applied, start_ret>>
    /\ UNCHANGED <<lockvars, poolvars, sflvars, thread_pool_>>

(***************************************************************************)
(* Specification Spec: two wheels, (2 x 4) over (2 x 2), a tick of 2 and a  *)
(* clock that advances by whole ticks.  The caller configures the          *)
(* hierarchy first, then uses it.                                          *)
(***************************************************************************)
\* The ids a caller passes: the ids issued so far and the one issued next.
Ids == 1..Min(timer_id_, MaxTimers)
Delays == {1}
Whens == {4}
WrapWhens == {4, 7}
Intervals == {3}

Init == Construct(Levels[Len(Levels)].interval)

Configured(levels) == Len(timewheels_) = Len(levels)

Setup(levels) ==
    /\ ~Configured(levels)
    /\ AppendTimeWheel(levels[Len(timewheels_) + 1].slot_num,
                       levels[Len(timewheels_) + 1].interval)

CallCreateTimerAfter == Configured(Levels) /\ \E delay \in Delays : CreateTimerAfter(delay)
CallCreateTimerEvery == Configured(Levels) /\ \E interval \in Intervals : CreateTimerEvery(interval)
CallResetTimerAfter == Configured(Levels) /\ \E id \in Ids, delay \in Delays : ResetTimerAfter(id, delay)
CallCancelTimer == Configured(Levels) /\ \E id \in Ids : CancelTimer(id)
CallStart == Configured(Levels) /\ thread_ = "none" /\ Start
Clock == thread_ = "running" /\ Advance(interval_in_millisecond_, MaxTime)

Next ==
    \/ Setup(Levels)
    \/ CallCreateTimerAfter
    \/ CallCreateTimerEvery
    \/ CallResetTimerAfter
    \/ CallCancelTimer
    \/ CallStart
    \/ DriverTick
    \/ Clock

Spec == Init /\ [][Next]_vars

(***************************************************************************)
(* Specification SpecE2E: the end-to-end scenario.  One wheel of 10 slots  *)
(* of 100 ms, a tick of 100 ms, CreateTimerAfter(250, f) at any phase of    *)
(* the tick cadence (the clock advances by half ticks), and a driver that   *)
(* is never late.                                                          *)
(***************************************************************************)
InitE2E == Construct(LevelsE2E[Len(LevelsE2E)].interval)

Punctual == thread_ = "running" /\ now < wake_at

E2ECreateTimerAfter == Configured(LevelsE2E) /\ CreateTimerAfter(250)
E2EStart == Configured(LevelsE2E) /\ thread_ = "none" /\ Start
E2EClock == Punctual /\ Advance(interval_in_millisecond_ \div 2, MaxTimeE2E)

NextE2E ==
    \/ Setup(LevelsE2E)
    \/ E2ECreateTimerAfter
    \/ E2EStart
    \/ DriverTick
    \/ E2EClock

SpecE2E == InitE2E /\ [][NextE2E]_vars

(***************************************************************************)
(* Specification SpecCascade: the cascading scenario.  Wheels of 10 slots  *)
(* of 1000 ms over 10 slots of 100 ms, a tick of 100 ms, the driver started *)
(* at time 0 and a timer due at 3500 registered at time 0.  The clock       *)
(* advances by half ticks; the driver is late at most once, by half a tick. *)
(***************************************************************************)
InitCascade == Construct(LevelsCascade[Len(LevelsCascade)].interval)

CascadeCreateTimerAt == Configured(LevelsCascade) /\ now = 0 /\ CreateTimerAt(3500)
CascadeStart == Configured(LevelsCascade) /\ thread_ = "none" /\ Start
\* No tick was late so far: the driver started at 0 and sleeps until a multiple
\* of the tick interval.
NeverLate == wake_at = tick_no * interval_in_millisecond_

CascadeClock ==
    /\ Punctual \/ (thread_ = "running" /\ NeverLate)
    /\ Advance(interval_in_millisecond_ \div 2, MaxTimeCascade)

NextCascade ==
    \/ Setup(LevelsCascade)
    \/ CascadeCreateTimerAt
    \/ CascadeStart
    \/ DriverTick
    \/ CascadeClock

SpecCascade == InitCascade /\ [][NextCascade]_vars

(***************************************************************************)
(* Specification SpecReset: the wheels of Spec, repeated timers and        *)
(* ResetTimerAt with a due time that is positive or 0.                      *)
(***************************************************************************)
ResetWhens == {0, 5}

ResetCreateTimerEvery == Configured(Levels) /\ \E interval \in Intervals : CreateTimerEvery(interval)
ResetCreateTimerAfter == Configured(Levels) /\ \E delay \in Delays : CreateTimerAfter(delay)
ResetResetTimerAt == Configured(Levels) /\ \E id \in Ids, when \in ResetWhens : ResetTimerAt(id, when)
ResetStart == Configured(Levels) /\ thread_ = "none" /\ Start
ResetClock == thread_ = "running" /\ Advance(interval_in_millisecond_, MaxTimeReset)

NextReset ==
    \/ Setup(Levels)
    \/ ResetCreateTimerEvery
    \/ ResetCreateTimerAfter
    \/ ResetResetTimerAt
    \/ ResetStart
    \/ DriverTick
    \/ ResetClock

SpecReset == Init /\ [][NextReset]_vars

(***************************************************************************)
(* Specification SpecStop: Start, ticks, Stop and a later Start.  The      *)
(* driver takes no tick after MaxTimeStop; the clock runs one interval      *)
(* further, so that every sleep_until of the driver returns.  Threads are   *)
(* scheduled fairly and time passes.                                        *)
(***************************************************************************)
StopCreateTimerEvery == Configured(Levels) /\ \E interval \in Intervals : CreateTimerEvery(interval)
StopStart == Configured(Levels) /\ thread_ = "none" /\ Start
StopTick == now <= MaxTimeStop /\ DriverTick
StopClock ==
    /\ thread_ = "running"
    /\ Advance(interval_in_millisecond_, MaxTimeStop + interval_in_millisecond_)

NextStop ==
    \/ Setup(Levels)
    \/ StopCreateTimerEvery
    \/ StopStart
    \/ StopTick
    \/ DriverExit
    \/ Stop
    \/ StopJoin
    \/ StopClock

SpecStop ==
    /\ Init
    /\ [][NextStop]_vars
    /\ WF_vars(DriverExit)
    /\ WF_vars(StopJoin)
    /\ WF_vars(StopClock)

(***************************************************************************)
(* Specification SpecAny: the public operations in any order, also before  *)
(* the first AppendTimeWheel and between two of them.                       *)
(***************************************************************************)
AnyCreateTimerAt == Alive /\ \E when \in Whens : CreateTimerAt(when)
AnyCreateTimerAfter == Alive /\ \E delay \in Delays : CreateTimerAfter(delay)
AnyCreateTimerEvery == Alive /\ \E interval \in Intervals : CreateTimerEvery(interval)
AnyResetTimerAt == Alive /\ \E id \in Ids, when \in Whens : ResetTimerAt(id, when)
AnyResetTimerAfter == Alive /\ \E id \in Ids, delay \in Delays : ResetTimerAfter(id, delay)
AnyCancelTimer == Alive /\ \E id \in Ids : CancelTimer(id)
AnyStart == thread_ \in {"none", "running"} /\ Start
AnyClock == thread_ = "running" /\ Advance(interval_in_millisecond_, MaxTimeAny)

NextAny ==
    \/ Setup(Levels)
    \/ AnyCreateTimerAt
    \/ AnyCreateTimerAfter
    \/ AnyCreateTimerEvery
    \/ AnyResetTimerAt
    \/ AnyResetTimerAfter
    \/ AnyCancelTimer
    \/ AnyStart
    \/ DriverTick
    \/ AnyClock

SpecAny == Init /\ [][NextAny]_vars

(***************************************************************************)
(* Specification SpecWrap: a running scheduler that has issued the ids     *)
(* 1 .. 2^IdBits - 2 to one-shot timers, all of which have been pushed; the *)
(* wheels are at index 0 again.  The logs of the model start here.          *)
(***************************************************************************)
\* timewheels_ after AppendTimeWheel was called for each of the levels.
RECURSIVE Hierarchy(_)
Hierarchy(levels) ==
    IF levels = <<>> THEN <<>>
    ELSE LET n == Len(levels) - 1
             tw == Hierarchy(SubSeq(levels, 1, n))
             curr == TimeWheel(levels[n + 1].slot_num, levels[n + 1].interval)
         IN  IF n = 0
             THEN <<curr>>
             ELSE Append([tw EXCEPT ![n].less_level_timewheel_ = n + 1],
                         [curr EXCEPT !.greater_level_timewheel_ = n])

InitWrap ==
    /\ now = 0
    /\ interval_in_millisecond_ = Levels[Len(Levels)].interval
    /\ timewheels_ = Hierarchy(Levels)
    /\ heap = <<>>
    /\ timer_id_ = 2 ^ IdBits - 1
    /\ canceled_timer_ids_ = {}
    /\ restart_timer_infos_ = [id \in {} |-> 0]
    /\ stop_flag_ = FALSE
    /\ thread_ = "running"
    /\ stop_pc = "idle"
    /\ wake_at = 0
    /\ pushed = <<>>
    /\ tick_no = 0
    /\ created = <<>>
    /\ cancel_ever = {}
    /\ reset_ever = {}
    /\ reset_applied = {}
    /\ discarded = {}
    /\ calls = 0
    /\ last_req = [id \in {} |-> ""]
    /\ ret = 2 ^ IdBits - 2
    /\ op = "CreateTimerAt"
    /\ applied = <<>>
    /\ start_ret = "true"
    /\ thread_pool_ = "pool1"
    /\ mutex_ = "free"
    /\ mtx_job_q_ = "free"
    /\ jobs_ = <<>>
    /\ PoolMembers
    /\ LockMembers
    /\ pc = [t \in Threads |-> "idle"]

WrapCreateTimerAt == Alive /\ \E when \in WrapWhens : CreateTimerAt(when)
WrapCreateTimerAfter == Alive /\ \E delay \in Delays : CreateTimerAfter(delay)
WrapCreateTimerEvery == Alive /\ \E interval \in Intervals : CreateTimerEvery(interval)
WrapClock == thread_ = "running" /\ Advance(interval_in_millisecond_, MaxTimeWrap)

NextWrap ==
    \/ WrapCreateTimerAt
    \/ WrapCreateTimerAfter
    \/ WrapCreateTimerEvery
    \/ DriverTick
    \/ WrapClock

SpecWrap == InitWrap /\ [][NextWrap]_vars

(***************************************************************************)
(* The lock-level view.  Each step is what a thread does between two lock  *)
(* operations; pc says where the thread is.  The data of the scheduler is  *)
(* left out: only who holds mutex_ and mtx_job_q_, who waits for them and  *)
(* who touches the wheel hierarchy.                                        *)
(*   driver  "idle" | "d_lock" | "d_tick" | "d_push" | "d_queue" | "d_sleep" *)
(*   worker  "idle" | "w_lock" | "w_wait" | "w_blocked" | "cb", and inside  *)
(*           a callback the positions of a caller                          *)
(*   caller  "idle" | "append" | "start" | "create_check" | "create_lock"   *)
(*           | "create" | "request_lock" | "request"                        *)
(***************************************************************************)
\* Where a thread is when it can call a public operation of the scheduler.
Base(t) == IF t = "worker" THEN "cb" ELSE "idle"

Goto(t, label) == pc' = [pc EXCEPT ![t] = label]

\* AppendTimeWheel: lines 44-54 run without mutex_.
BeginAppendTimeWheel(t) ==
    /\ pc[t] = Base(t)
    /\ Goto(t, "append")
    /\ UNCHANGED <<mutex_, mtx_job_q_, jobs_>>
    /\ UNCHANGED <<datavars, poolvars, sflvars, thread_pool_>>

EndAppendTimeWheel(t) ==
    /\ pc[t] = "append"
    /\ Goto(t, Base(t))
    /\ UNCHANGED <<mutex_, mtx_job_q_, jobs_>>
    /\ UNCHANGED <<datavars, poolvars, sflvars, thread_pool_>>

\* Start: timewheels_.empty() is read without mutex_ (line 156), then the pool
\* and the driver thread are created.
BeginStart(t) ==
    /\ pc[t] = Base(t)
    /\ pc["driver"] = "idle"
    /\ Goto(t, "start")
    /\ UNCHANGED <<mutex_, mtx_job_q_, jobs_>>
    /\ UNCHANGED <<datavars, poolvars, sflvars, thread_pool_>>

EndStart(t) ==
    /\ pc[t] = "start"
    /\ pc' = [pc EXCEPT ![t] = Base(t), !["driver"] = "d_lock", !["worker"] = "w_lock"]
    /\ UNCHANGED <<mutex_, mtx_job_q_, jobs_>>
    /\ UNCHANGED <<datavars, poolvars, sflvars, thread_pool_>>

\* CreateTimerAt / CreateTimerEvery: timewheels_.empty() is read without
\* mutex_ (lines 67, 102), then mutex_ is taken for AddTimer and timer_id_++.
BeginCreateTimer(t) ==
    /\ pc[t] = Base(t)
    /\ Goto(t, "create_check")
    /\ UNCHANGED <<mutex_, mtx_job_q_, jobs_>>
    /\ UNCHANGED <<datavars, poolvars, sflvars, thread_pool_>>

CheckedCreateTimer(t) ==
    /\ pc[t] = "create_check"
    /\ Goto(t, "create_lock")
    /\ UNCHANGED <<mutex_, mtx_job_q_, jobs_>>
    /\ UNCHANGED <<datavars, poolvars, sflvars, thread_pool_>>

LockCreateTimer(t) ==
    /\ pc[t] = "create_lock"
    /\ mutex_ = "free"
    /\ mutex_' = t
    /\ Goto(t, "create")
    /\ UNCHANGED <<mtx_job_q_, jobs_>>
    /\ UNCHANGED <<datavars, poolvars, sflvars, thread_pool_>>

EndCreateTimer(t) ==
    /\ pc[t] = "create"
    /\ mutex_' = "free"
    /\ Goto(t, Base(t))
    /\ UNCHANGED <<mtx_job_q_, jobs_>>
    /\ UNCHANGED <<datavars, poolvars, sflvars, thread_pool_>>

\* CancelTimer / ResetTimerAt: the whole body holds mutex_.
BeginRequest(t) ==
    /\ pc[t] = Base(t)
    /\ Goto(t, "request_lock")
    /\ UNCHANGED <<mutex_, mtx_job_q_, jobs_>>
    /\ UNCHANGED <<datavars, poolvars, sflvars, thread_pool_>>

LockRequest(t) ==
    /\ pc[t] = "request_lock"
    /\ mutex_ = "free"
    /\ mutex_' = t
    /\ Goto(t, "request")
    /\ UNCHANGED <<mtx_job_q_, jobs_>>
    /\ UNCHANGED <<datavars, poolvars, sflvars, thread_pool_>>

EndRequest(t) ==
    /\ pc[t] = "request"
    /\ mutex_' = "free"
    /\ Goto(t, Base(t))
    /\ UNCHANGED <<mtx_job_q_, jobs_>>
    /\ UNCHANGED <<datavars, poolvars, sflvars, thread_pool_>>

\* The driver loop at lock level: lock_guard on mutex_ (line 168), for each
\* timer to run a Push, which takes mtx_job_q_ (thread_pool.hpp line 50), the
\* end of the guarded block (line 204) and sleep_until (line 206).
DriverLock ==
    /\ pc["driver"] = "d_lock"
    /\ mutex_ = "free"
    /\ mutex_' = "driver"
    /\ Goto("driver", "d_tick")
    /\ UNCHANGED <<mtx_job_q_, jobs_>>
    /\ UNCHANGED <<datavars, poolvars, sflvars, thread_pool_>>

DriverPushBegin ==
    /\ pc["driver"] = "d_tick"
    /\ Len(jobs_) < MaxJobs
    /\ Goto("driver", "d_push")
    /\ UNCHANGED <<mutex_, mtx_job_q_, jobs_>>
    /\ UNCHANGED <<datavars, poolvars, sflvars, thread_pool_>>

DriverPushLock ==
    /\ pc["driver"] = "d_push"
    /\ mtx_job_q_ = "free"
    /\ mtx_job_q_' = "driver"
    /\ Goto("driver", "d_queue")
    /\ UNCHANGED <<mutex_, jobs_>>
    /\ UNCHANGED <<datavars, poolvars, sflvars, thread_pool_>>

DriverPushEnd ==
    /\ pc["driver"] = "d_queue"
    /\ jobs_' = Append(jobs_, "Run")
    /\ mtx_job_q_' = "free"
    /\ Goto("driver", "d_tick")
    /\ UNCHANGED mutex_
    /\ UNCHANGED <<datavars, poolvars, sflvars, thread_pool_>>

DriverUnlock ==
    /\ pc["driver"] = "d_tick"
    /\ mutex_' = "free"
    /\ Goto("driver", "d_sleep")
    /\ UNCHANGED <<mtx_job_q_, jobs_>>
    /\ UNCHANGED <<datavars, poolvars, sflvars, thread_pool_>>

DriverWake ==
    /\ pc["driver"] = "d_sleep"
    /\ Goto("driver", "d_lock")
    /\ UNCHANGED <<mutex_, mtx_job_q_, jobs_>>
    /\ UNCHANGED <<datavars, poolvars, sflvars, thread_pool_>>

\* ThreadPool::WorkerThread: unique_lock on mtx_job_q_ (line 63), the wait on
\* cv_job_q_ (line 64), the pop and lock.unlock() (lines 70-72), job() (74).
WorkerLock ==
    /\ pc["worker"] = "w_lock"
    /\ mtx_job_q_ = "free"
    /\ mtx_job_q_' = "worker"
    /\ Goto("worker", "w_wait")
    /\ UNCHANGED <<mutex_, jobs_>>
    /\ UNCHANGED <<datavars, poolvars, sflvars, thread_pool_>>

WorkerWait ==
    /\ pc["worker"] = "w_wait"
    /\ jobs_ = <<>>
    /\ mtx_job_q_' = "free"
    /\ Goto("worker", "w_blocked")
    /\ UNCHANGED <<mutex_, jobs_>>
    /\ UNCHANGED <<datavars, poolvars, sflvars, thread_pool_>>

WorkerWake ==
    /\ pc["worker"] = "w_blocked"
    /\ jobs_ # <<>>
    /\ mtx_job_q_ = "free"
    /\ mtx_job_q_' = "worker"
    /\ Goto("worker", "w_wait")
    /\ UNCHANGED <<mutex_, jobs_>>
    /\ UNCHANGED <<datavars, poolvars, sflvars, thread_pool_>>

WorkerPopKeepLock ==
    /\ pc["worker"] = "w_wait"
    /\ jobs_ # <<>>
    /\ jobs_' = Tail(jobs_)
    /\ Goto("worker", "cb")
    /\ UNCHANGED <<mutex_, mtx_job_q_>>
    /\ UNCHANGED <<datavars, poolvars, sflvars, thread_pool_>>

WorkerPop ==
    /\ pc["worker"] = "w_wait"
    /\ jobs_ # <<>>
    /\ jobs_' = Tail(jobs_)
    /\ mtx_job_q_' = "free"
    /\ Goto("worker", "cb")
    /\ UNCHANGED mutex_
    /\ UNCHANGED <<datavars, poolvars, sflvars, thread_pool_>>

\* The callback returns and the worker goes round its loop.
WorkerDone ==
    /\ pc["worker"] = "cb"
    /\ Goto("worker", "w_lock")
    /\ UNCHANGED <<mutex_, mtx_job_q_, jobs_>>
    /\ UNCHANGED <<datavars, poolvars, sflvars, thread_pool_>>

(***************************************************************************)
(* Specification SpecLock: an application thread configures, starts and    *)
(* uses the scheduler while the driver ticks and pushes and a worker runs  *)
(* callbacks that call CreateTimer*, CancelTimer and ResetTimer*.  Every    *)
(* thread keeps running, a thread that waits for a mutex gets it when it   *)
(* is free again and again, and a tick ends (a slot holds finitely many    *)
(* timers).                                                                *)
(***************************************************************************)
Callers == {"caller", "worker"}

LockAppendTimeWheel == BeginAppendTimeWheel("caller") \/ EndAppendTimeWheel("caller")
LockStart == BeginStart("caller") \/ EndStart("caller")
LockCreateTimerBegin == \E t \in Callers : BeginCreateTimer(t) \/ CheckedCreateTimer(t)
LockCreateTimerLock == \E t \in Callers : LockCreateTimer(t)
LockCreateTimerEnd == \E t \in Callers : EndCreateTimer(t)
LockRequestBegin == \E t \in Callers : BeginRequest(t)
LockRequestLock == \E t \in Callers : LockRequest(t)
LockRequestEnd == \E t \in Callers : EndRequest(t)

NextLock ==
    \/ LockAppendTimeWheel
    \/ LockStart
    \/ LockCreateTimerBegin
    \/ LockCreateTimerLock
    \/ LockCreateTimerEnd
    \/ LockRequestBegin
    \/ LockRequestLock
    \/ LockRequestEnd
    \/ DriverLock
    \/ DriverPushBegin
    \/ DriverPushLock
    \/ DriverPushEnd
    \/ DriverUnlock
    \/ DriverWake
    \/ WorkerLock
    \/ WorkerWait
    \/ WorkerWake
    \/ WorkerPop
    \/ WorkerDone

SpecLock ==
    /\ Init
    /\ [][NextLock]_vars
    /\ WF_vars(LockCreateTimerEnd) /\ WF_vars(LockRequestEnd)
    /\ WF_vars(DriverPushEnd) /\ WF_vars(DriverWake)
    /\ WF_vars(WorkerWait) /\ WF_vars(WorkerPop)
    /\ SF_vars(DriverPushLock) /\ SF_vars(WorkerLock) /\ SF_vars(WorkerWake)
    /\ SF_vars(DriverUnlock)
    /\ \A t \in Callers : SF_vars(LockCreateTimer(t)) /\ SF_vars(LockRequest(t))

(***************************************************************************)
(* Vocabulary of the properties.                                           *)
(***************************************************************************)
Timers == 1..Len(heap)

\* The places <<wheel, slot, position>> of the hierarchy tw.
Places(tw) ==
    UNION {UNION {{<<i, n, k>> : k \in 1..Len(tw[i].slots_[n])} :
                  n \in DOMAIN tw[i].slots_} : i \in 1..Len(tw)}

\* In how many places of tw the timer is.
BucketCount(tw, timer) ==
    Cardinality({pl \in Places(tw) : tw[pl[1]].slots_[pl[2]][pl[3]] = timer})

\* How often the log holds a push of the timer.
PushCount(log, timer) == Cardinality({k \in 1..Len(log) : log[k].timer = timer})

\* A one-shot timer whose task was pushed is consumed.
Consumed == {timer \in Timers : ~heap[timer].is_repeated_ /\ PushCount(pushed, timer) > 0}

Registered == (Timers \ discarded) \ Consumed

\* The time of the tick made last.
LastTickAt == wake_at - interval_in_millisecond_

\* C1: a timer whose id CancelTimer was called with before the driver took
\* the lock for a tick is not pushed to the pool in that tick or in any later
\* one, be it one-shot or repeated.
C1_CancelledNeverPushed ==
    \A k \in 1..Len(pushed) : ~pushed[k].cancel_requested

\* A repeated timer was pushed, was then cancelled and has been dropped at its
\* next pop; a requested reset did not save it.
C1_Witness ==
    \E timer \in discarded :
        /\ heap[timer].is_repeated_
        /\ PushCount(pushed, timer) > 0
        /\ timer \in reset_applied

\* C6: every timer that was registered and neither dropped by a cancel nor
\* consumed as a pushed one-shot is in exactly one slot of exactly one wheel,
\* and the slots hold no other timer.
C6_WheelContent ==
    \A timer \in Timers :
        BucketCount(timewheels_, timer) = IF timer \in Registered THEN 1 ELSE 0

\* After cascading, repeat and reset re-insertion, a cancel and a consumed
\* one-shot: one timer is still registered, the other is gone.
C6_Witness ==
    /\ timewheels_ # <<>>
    /\ timewheels_[1].curr_slot_idx_ > 0
    /\ \E timer \in Registered : heap[timer].is_repeated_ /\ PushCount(pushed, timer) > 0
    /\ Consumed \cup discarded # {}
    /\ reset_applied # {}

\* Neither CancelTimer nor ResetTimerAt/After was ever called with the timer's id.
Untouched(timer) ==
    /\ heap[timer].id_ \notin cancel_ever
    /\ heap[timer].id_ \notin reset_ever

\* C2: a timer registered with a due time in the future, never cancelled or
\* reset, is not pushed to the pool at a tick whose time is earlier than its
\* due time (the tick interval is the span of a slot of the least wheel).
C2_NoEarlyFiring ==
    \A k \in 1..Len(pushed) :
        LET timer == pushed[k].timer
        IN  (created[timer].when > created[timer].at /\ Untouched(timer))
                => pushed[k].at >= pushed[k].when

\* C3: a timer registered on a running scheduler with a due time in the
\* future, never cancelled or reset, has been pushed once a tick later than
\* its due time is over: the tick that pushes it is at most one tick interval
\* after the due time.
C3_BoundedResponse ==
    \A timer \in Timers :
        (/\ created[timer].running
         /\ created[timer].when > created[timer].at
         /\ Untouched(timer)
         /\ tick_no > 0
         /\ LastTickAt > created[timer].when)
            => PushCount(pushed, timer) > 0

\* C7: no id is in canceled_timer_ids_ and in restart_timer_infos_ at once.
C7_CancelResetExclusive ==
    canceled_timer_ids_ \cap DOMAIN restart_timer_infos_ = {}

\* The ids with a pending request.
PendingIds == canceled_timer_ids_ \cup DOMAIN restart_timer_infos_

\* A tick pops a timer with the id.
PopsId(id) ==
    /\ tick_no' = tick_no + 1
    /\ \E timer \in Range(PoppedSlot) : heap[timer].id_ = id

\* C7 (amended): an id can be in canceled_timer_ids_ and in
\* restart_timer_infos_ at once.  No call of CancelTimer, ResetTimerAt or
\* ResetTimerAfter removes an id from either of them; an id leaves
\* restart_timer_infos_ only in a tick that pops a timer with that id, and
\* leaves canceled_timer_ids_ only in such a tick when no reset is pending
\* for it.
C7_PendingUntilPopped ==
    [][\A id \in PendingIds :
         /\ (id \in DOMAIN restart_timer_infos_ /\ id \notin DOMAIN restart_timer_infos_')
                => PopsId(id)
         /\ (id \in canceled_timer_ids_ /\ id \notin canceled_timer_ids_')
                => (PopsId(id) /\ id \notin DOMAIN restart_timer_infos_)]_vars

\* A cancel and a reset are pending for the id of a registered timer.
C7_Witness ==
    \E timer \in Registered :
        /\ heap[timer].id_ \in canceled_timer_ids_
        /\ heap[timer].id_ \in DOMAIN restart_timer_infos_

ResetApplied(timer) ==
    /\ heap[timer].id_ \in DOMAIN restart_timer_infos_
    /\ heap[timer].id_ \notin DOMAIN restart_timer_infos_'

CancelApplied(timer) ==
    /\ heap[timer].id_ \in canceled_timer_ids_
    /\ heap[timer].id_ \notin canceled_timer_ids_'

Submitted(timer) == PushCount(pushed', timer) - PushCount(pushed, timer)

C9_OneOutcomePerPop ==
    [][tick_no' = tick_no + 1 =>
         /\ Cardinality(Range(PoppedSlot)) = Len(PoppedSlot)
         /\ \A timer \in Range(PoppedSlot) :
              /\ Submitted(timer) \in {0, 1}
              /\ Cardinality({o \in {"reset", "cancel", "push"} :
                     \/ o = "reset" /\ ResetApplied(timer)
                     \/ o = "cancel" /\ CancelApplied(timer)
                     \/ o = "push" /\ Submitted(timer) = 1}) = 1
              /\ ResetApplied(timer) => BucketCount(timewheels_', timer) = 1
              /\ CancelApplied(timer) => BucketCount(timewheels_', timer) = 0]_vars

\* Ticks have applied a reset, applied a cancel and pushed a task.
C9_Witness ==
    /\ reset_applied # {}
    /\ discarded # {}
    /\ pushed # <<>>

\* The pushes of a timer, in order.
RECURSIVE PushesOf(_, _)
PushesOf(log, timer) ==
    IF log = <<>> THEN <<>>
    ELSE IF Head(log).timer = timer
    THEN <<Head(log)>> \o PushesOf(Tail(log), timer)
    ELSE PushesOf(Tail(log), timer)

\* C10: a repeated timer with interval I and first due time D that no reset
\* was applied to has, after its n-th push, the due time D + n * I; its n-th
\* push was made for the due time D + (n - 1) * I, whenever the ticks occur.
C10_NoDrift ==
    \A timer \in Timers :
        (heap[timer].is_repeated_ /\ timer \notin reset_applied) =>
            LET ps == PushesOf(pushed, timer)
            IN  /\ heap[timer].when_ = created[timer].when + Len(ps) * heap[timer].interval_
                /\ \A n \in 1..Len(ps) :
                       ps[n].when = created[timer].when + (n - 1) * heap[timer].interval_

\* A repeated timer was pushed twice, once by a tick later than its due time.
C10_Witness ==
    \E timer \in Timers \ reset_applied :
        /\ heap[timer].is_repeated_
        /\ PushCount(pushed, timer) >= 2
        /\ \E k \in 1..Len(pushed) : pushed[k].timer = timer /\ pushed[k].at > pushed[k].when

\* C4: on a started scheduler with the single wheel (10 slots, 100 ms),
\* CreateTimerAfter(250, f) returns a nonzero id and f is pushed exactly
\* once, at a tick 250 ms or more and less than 350 ms after the call,
\* whatever the phase of the call in the tick cadence.
C4_EndToEnd ==
    \A timer \in Timers :
        created[timer].running =>
            /\ created[timer].id # 0
            /\ PushCount(pushed, timer) <= 1
            /\ \A k \in 1..Len(pushed) :
                   pushed[k].timer = timer =>
                       /\ pushed[k].at - created[timer].at >= 250
                       /\ pushed[k].at - created[timer].at < 350
            /\ now >= created[timer].at + 350 => PushCount(pushed, timer) = 1

\* In which places of wheel i of the hierarchy the timer is.
InWheel(i, timer) ==
    {pl \in Places(timewheels_) :
         pl[1] = i /\ timewheels_[pl[1]].slots_[pl[2]][pl[3]] = timer}

\* C5: with the wheels (10 slots, 1000 ms) over (10 slots, 100 ms) and a tick
\* of 100 ms, a timer due 3500 ms after the start is put in a slot of the
\* greatest wheel first; once that wheel has been increased 3 times the timer
\* is in a slot of the least wheel; and it is pushed at a tick in [3500, 3600).
C5_Cascading ==
    \A timer \in Timers :
        /\ timewheels_[1].curr_slot_idx_ < 3 => InWheel(1, timer) # {}
        /\ timewheels_[1].curr_slot_idx_ >= 3 =>
               /\ InWheel(1, timer) = {}
               /\ PushCount(pushed, timer) = 0 => InWheel(2, timer) # {}
        /\ PushCount(pushed, timer) <= 1
        /\ \A k \in 1..Len(pushed) :
               pushed[k].timer = timer =>
                   /\ pushed[k].at >= 3500
                   /\ pushed[k].at < 3600

\* The resets applied to the timer, in order.
RECURSIVE AppliedTo(_, _)
AppliedTo(log, timer) ==
    IF log = <<>> THEN <<>>
    ELSE IF Head(log).timer = timer
    THEN <<Head(log)>> \o AppliedTo(Tail(log), timer)
    ELSE AppliedTo(Tail(log), timer)

\* C11: when a reset to the due time w was applied to a repeated timer with
\* interval I, the k-th push after it (before the next applied reset) is made
\* for the due time w + (k - 1) * I, the timer's due time after these pushes is
\* w + k * I, and the timer's id and interval are the ones it was created with.
C11_ResetPreservesCadence ==
    \A timer \in Timers :
        heap[timer].is_repeated_ =>
            LET ps == PushesOf(pushed, timer)
                as == AppliedTo(applied, timer)
                I == heap[timer].interval_
            IN  /\ heap[timer].id_ = created[timer].id
                /\ I = created[timer].interval
                /\ \A j \in 1..Len(as) :
                       LET last == IF j < Len(as) THEN as[j + 1].pushes ELSE Len(ps)
                       IN  /\ \A n \in (as[j].pushes + 1)..last :
                                  ps[n].when = as[j].when + (n - as[j].pushes - 1) * I
                           /\ j = Len(as) =>
                                  heap[timer].when_ = as[j].when + (last - as[j].pushes) * I

\* Stop() has returned at least once.
StopReturned == stop_flag_ /\ stop_pc = "idle"

\* C12: a Stop() called after a successful Start() returns, and once a Stop()
\* has returned the driver makes no tick: no wheel index moves and no task is
\* pushed, also when Start() is called again.
C12_Shutdown ==
    /\ (stop_pc = "join") ~> (stop_pc = "idle")
    /\ [][StopReturned =>
            /\ tick_no' = tick_no
            /\ pushed' = pushed
            /\ \A i \in 1..Len(timewheels_) :
                   timewheels_'[i].curr_slot_idx_ = timewheels_[i].curr_slot_idx_]_vars

\* Stop() returned after the driver had ticked and pushed a task; timers are
\* still in the wheels, and Start() was called again.
C12_Witness ==
    /\ StopReturned
    /\ pushed # <<>>
    /\ Registered # {}
    /\ thread_ \in {"running", "exited"}

\* The mutex a thread is blocked on, "none" when it is not blocked on one.
WaitsFor(t) ==
    IF pc[t] \in {"create_lock", "request_lock", "d_lock"} THEN "mutex_"
    ELSE IF pc[t] \in {"d_push", "w_lock"} \/ (pc[t] = "w_blocked" /\ jobs_ # <<>>)
    THEN "mtx_job_q_"
    ELSE "none"

Holder(lock) == IF lock = "mutex_" THEN mutex_ ELSE mtx_job_q_

\* Every thread of the set waits for a mutex that a thread of the set holds.
WaitCycle(S) ==
    /\ S # {}
    /\ \A t \in S : WaitsFor(t) # "none" /\ Holder(WaitsFor(t)) \in S

\* The worker is inside a callback.
InCallback ==
    pc["worker"] \in {"cb", "create_check", "create_lock", "create", "request_lock", "request"}

\* C13: a callback running on a worker may call CreateTimer*, CancelTimer and
\* ResetTimer*: while the callback runs the worker does not hold mtx_job_q_
\* and holds mutex_ only inside such a call, no set of threads waits for
\* mutexes held within the set, and every call that waits for mutex_ gets it
\* and returns.
C13_Reentrancy ==
    /\ [](InCallback => mtx_job_q_ # "worker")
    /\ [](pc["worker"] = "cb" => mutex_ # "worker")
    /\ [](\A S \in SUBSET Threads : ~WaitCycle(S))
    /\ \A t \in Callers :
           (pc[t] \in {"create_lock", "request_lock"}) ~> (pc[t] = Base(t))

\* A callback waits for mutex_ in CreateTimer* while the driver, inside a
\* tick, holds mutex_ and mtx_job_q_ for a Push.
C13_Witness ==
    /\ pc["worker"] = "create_lock"
    /\ pc["driver"] = "d_queue"
    /\ mutex_ = "driver"
    /\ mtx_job_q_ = "driver"

\* The thread reads or writes the wheel hierarchy (timewheels_, the wheels'
\* links, slots and indices).
AccessesHierarchy(t) ==
    pc[t] \in {"append", "start", "create_check", "create", "d_tick", "d_push", "d_queue"}

\* C14: a thread that reads or writes the wheel hierarchy in AppendTimeWheel,
\* CreateTimer*, Start or a driver tick holds mutex_.
C14_LockDiscipline ==
    \A t \in Threads : AccessesHierarchy(t) => mutex_ = t

\* The step is a call of the public operation named.
Called(names) == calls' = calls + 1 /\ op' \in names

\* C15: CreateTimerAt, CreateTimerAfter and CreateTimerEvery called while no
\* wheel is appended return 0 and change nothing: no TimeoutJob is made or
\* added, timer_id_ stays, canceled_timer_ids_ and restart_timer_infos_ stay.
C15_SentinelOnEmpty ==
    [][(Called({"CreateTimerAt", "CreateTimerEvery"}) /\ timewheels_ = <<>>) =>
          /\ ret' = 0
          /\ UNCHANGED <<timewheels_, heap, timer_id_, canceled_timer_ids_,
                         restart_timer_infos_, created, pushed, stop_flag_, thread_>>]_vars

\* A CreateTimer* call returned 0 on a scheduler without wheels that has a
\* pending cancel and a pending reset.
C15_Witness ==
    /\ timewheels_ = <<>>
    /\ op \in {"CreateTimerAt", "CreateTimerEvery"}
    /\ ret = 0
    /\ canceled_timer_ids_ # {}
    /\ DOMAIN restart_timer_infos_ # {}

\* C16: a CreateTimer* call that adds a TimeoutJob returns the id stored in
\* that job, and the id is greater than the id of every job made before (so
\* the ids are pairwise distinct and increase in the order of the calls).
C16_IdsIncrease ==
    [][(Called({"CreateTimerAt", "CreateTimerEvery"}) /\ timewheels_ # <<>>) =>
          /\ Len(heap') = Len(heap) + 1
          /\ ret' = heap'[Len(heap')].id_
          /\ ret' > ret
          /\ \A timer \in Timers : heap[timer].id_ < ret']_vars

\* C17: a CreateTimer* call that adds a TimeoutJob does not return 0, and no
\* two timers that are in the wheels have the same id, also when timer_id_
\* has wrapped round.
C17_NoZeroNoReuse ==
    /\ \A timer \in Timers : created[timer].id # 0
    /\ \A t1, t2 \in Registered : heap[t1].id_ = heap[t2].id_ => t1 = t2


\* C18: a tick that pops a timer whose id has a recorded reset does not push
\* the timer, gives it the recorded due time, puts it in exactly one slot of
\* the hierarchy again, keeps it alive and removes the id from
\* restart_timer_infos_; and a tick changes and pushes no timer it does not
\* pop, so a recorded reset acts on the timer only in the tick that pops it.
C18_LazyReset ==
    [][tick_no' = tick_no + 1 =>
         \A timer \in Registered :
             LET id == heap[timer].id_
             IN  IF timer \in Range(PoppedSlot)
                 THEN id \in DOMAIN restart_timer_infos_ =>
                          /\ Submitted(timer) = 0
                          /\ heap'[timer].when_ = restart_timer_infos_[id]
                          /\ BucketCount(timewheels_', timer) = 1
                          /\ timer \notin discarded'
                          /\ id \notin DOMAIN restart_timer_infos_'
                 ELSE /\ Submitted(timer) = 0
                      /\ heap'[timer] = heap[timer]]_vars


\* C19: a call of CancelTimer adds one id to canceled_timer_ids_ and a call of
\* ResetTimerAt or ResetTimerAfter writes one entry of restart_timer_infos_;
\* the call changes nothing else: not the other container, no wheel (slots
\* and current indexes), no job (due time included), not timer_id_, not what
\* was pushed or dropped, not the driver.  This holds for the id of a timer
\* in the wheels, of a timer that is gone and for an id never issued.
C19_RequestFrame ==
    [][/\ Called({"CancelTimer"}) =>
              /\ \E id \in Ids : canceled_timer_ids_' = canceled_timer_ids_ \cup {id}
              /\ UNCHANGED restart_timer_infos_
       /\ Called({"ResetTimerAt"}) =>
              /\ \E id \in Ids :
                     /\ DOMAIN restart_timer_infos_' = DOMAIN restart_timer_infos_ \cup {id}
                     /\ \A other \in DOMAIN restart_timer_infos_ \ {id} :
                            restart_timer_infos_'[other] = restart_timer_infos_[other]
              /\ UNCHANGED canceled_timer_ids_
       /\ Called({"CancelTimer", "ResetTimerAt"}) =>
              UNCHANGED <<timewheels_, heap, timer_id_, pushed, applied, discarded,
                          reset_applied, created, ret, now, interval_in_millisecond_,
                          stop_flag_, thread_, stop_pc, wake_at, tick_no>>]_vars

\* A cancel is recorded for an id never issued and a reset to another due time
\* is recorded for a timer in the wheels, whose due time is the old one.
C19_Witness ==
    /\ op \in {"CancelTimer", "ResetTimerAt"}
    /\ \E id \in canceled_timer_ids_ : id >= timer_id_
    /\ \E timer \in Registered :
           /\ heap[timer].id_ \in DOMAIN restart_timer_infos_
           /\ restart_timer_infos_[heap[timer].id_] # heap[timer].when_
           /\ heap[timer].when_ = created[timer].when
           /\ BucketCount(timewheels_, timer) = 1


(***************************************************************************)
(* Requests for ids that no timer in the wheels has: CancelTimer and       *)
(* ResetTimerAt are only called with the id of a timer that was pushed     *)
(* (one-shot), of a timer that was dropped, or with an id not issued yet.  *)
(***************************************************************************)
\* The ids of the timers in the wheels.
RegisteredIds == {heap[timer].id_ : timer \in Registered}

StaleCreateTimerAfter == Configured(Levels) /\ \E delay \in Delays : CreateTimerAfter(delay)
StaleCreateTimerEvery == Configured(Levels) /\ \E interval \in Intervals : CreateTimerEvery(interval)
StaleCancelTimer == \E id \in Ids \ RegisteredIds : CancelTimer(id)
StaleResetTimerAt == \E id \in Ids \ RegisteredIds, when \in ResetWhens : ResetTimerAt(id, when)
StaleStart == Configured(Levels) /\ thread_ = "none" /\ Start
StaleClock == thread_ = "running" /\ Advance(interval_in_millisecond_, MaxTimeStale)

NextStale ==
    \/ Setup(Levels)
    \/ StaleCreateTimerAfter
    \/ StaleCreateTimerEvery
    \/ StaleCancelTimer
    \/ StaleResetTimerAt
    \/ StaleStart
    \/ DriverTick
    \/ StaleClock

SpecStale == Init /\ [][NextStale]_vars

\* C20: when CancelTimer and ResetTimerAt are only ever called with ids that
\* no timer in the wheels has at the time of the call, no timer is dropped
\* and no timer gets another due time: every timer is pushed as if the calls
\* had not been made.
C20_UnmatchedNoOp ==
    /\ discarded = {}
    /\ reset_applied = {}
    /\ applied = <<>>


\* The timer was created with less than the span of a slot of the least wheel
\* left until its due time.
AlmostDue(timer) ==
    created[timer].when - created[timer].at
        < timewheels_[GetLeastTimeWheel].interval_in_millisecond_

\* The timer a successful CreateTimerAt/After/Every call has just made.
Made == Len(heap')

\* C21: a timer created with less than the span of a slot of the least wheel
\* left until its due time is put in the current slot of the least wheel, and
\* the first tick after its creation pops it.
C21_AlmostDueFallback ==
    [][/\ (/\ Called({"CreateTimerAt", "CreateTimerEvery"})
           /\ timewheels_ # <<>>
           /\ heap'[Made].when_ - now < timewheels_[GetLeastTimeWheel].interval_in_millisecond_)
              => Made \in Range(CurrentSlot(timewheels_', GetLeastTimeWheel))
       /\ tick_no' = tick_no + 1 =>
              \A timer \in Registered :
                  (AlmostDue(timer) /\ created[timer].tick = tick_no)
                      => timer \in Range(PoppedSlot)]_vars


\* A step of Start() called on a scheduler whose driver was not launched.
StartCalled == thread_ = "none" /\ (thread_' # thread_ \/ start_ret' # start_ret)

DefaultInterval == 50
CtorArgs == {-1, 0, 1, 2}
ToUint32(n) == n % (2 ^ IntervalBits)

InitCtor ==
    \/ Construct(DefaultInterval)
    \/ \E interval \in CtorArgs : Construct(ToUint32(interval))

NextCtor ==
    \/ Setup(Levels)
    \/ CallCreateTimerAfter
    \/ CallStart
    \/ DriverTick
    \/ Clock

SpecCtor == InitCtor /\ [][NextCtor]_vars

Appended == Len(timewheels_') = Len(timewheels_) + 1
NewWheel == Len(timewheels_')

\* The wheel has moved on by one slot.
Ticked(i) ==
    timewheels_'[i].curr_slot_idx_ = (timewheels_[i].curr_slot_idx_ + 1) % timewheels_[i].slot_num_

\* C24: the first AppendTimeWheel makes the only wheel; each later call makes
\* the new wheel the greatest one, where CreateTimer* starts to add, with the
\* wheel that was the greatest before as its less-level neighbour (linked in
\* both directions), and the wheel a tick increases stays the one appended
\* first.
C24_NewIsCoarsest ==
    [][/\ (Appended /\ timewheels_ = <<>>) =>
              /\ timewheels_'[1].less_level_timewheel_ = 0
              /\ timewheels_'[1].greater_level_timewheel_ = 0
       /\ (Appended /\ timewheels_ # <<>>) =>
              /\ GetGreatestTimeWheel' = NewWheel
              /\ timewheels_'[NewWheel].less_level_timewheel_ = GetGreatestTimeWheel
              /\ timewheels_'[GetGreatestTimeWheel].greater_level_timewheel_ = NewWheel
              /\ GetLeastTimeWheel' = 1
       /\ tick_no' = tick_no + 1 => Ticked(1)]_vars

\* C24 (amended): the first AppendTimeWheel makes the only wheel; each later
\* call makes the new wheel the least one, the wheel a tick increases, with
\* the wheel that was the least before as its greater-level neighbour (linked
\* in both directions); the greatest wheel, where CreateTimer* starts to add,
\* stays the one appended first.  The call changes nothing else of the wheels
\* that were there.
C24_NewIsFinest ==
    [][/\ (Appended /\ timewheels_ = <<>>) =>
              /\ timewheels_'[1].less_level_timewheel_ = 0
              /\ timewheels_'[1].greater_level_timewheel_ = 0
       /\ (Appended /\ timewheels_ # <<>>) =>
              /\ GetLeastTimeWheel' = NewWheel
              /\ timewheels_'[NewWheel].greater_level_timewheel_ = GetLeastTimeWheel
              /\ timewheels_'[NewWheel].less_level_timewheel_ = 0
              /\ timewheels_'[GetLeastTimeWheel].less_level_timewheel_ = NewWheel
              /\ GetGreatestTimeWheel' = 1
              /\ timewheels_'[1].greater_level_timewheel_ = 0
              /\ \A i \in 1..Len(timewheels_) :
                     timewheels_'[i] =
                         [timewheels_[i] EXCEPT
                              !.less_level_timewheel_ = timewheels_'[i].less_level_timewheel_]
       /\ tick_no' = tick_no + 1 => Ticked(GetLeastTimeWheel)
       /\ (Called({"CreateTimerAt", "CreateTimerEvery"}) /\ timewheels_ # <<>>) =>
              timewheels_' = AddTimer(timewheels_, 1, Made, heap', now)]_vars

\* Two wheels were appended; ticks have moved the wheel appended last while
\* the wheel appended first, which holds a timer, has not moved.
C24_Witness ==
    /\ Len(timewheels_) = 2
    /\ timewheels_[2].curr_slot_idx_ = 1
    /\ timewheels_[1].curr_slot_idx_ = 0
    /\ tick_no > 0
    /\ \E timer \in Registered : InWheel(1, timer) # {}


(***************************************************************************)
(* Specification SpecWheel: the methods of TimeWheel called on any wheel   *)
(* of a hierarchy of three wheels, (2 x 8) over (2 x 4) over (2 x 2), at   *)
(* any time.                                                               *)
(***************************************************************************)
LevelsWheel == <<[slot_num |-> 2, interval |-> 8], [slot_num |-> 2, interval |-> 4],
                 [slot_num |-> 2, interval |-> 2]>>
WheelWhens == {1, 6, 13}
Wheels == 1..Len(timewheels_)

\* A call of a TimeWheel method on wheel i, which changes the wheels to tw and
\* the jobs to hp.
WheelCall(method, i, tw, hp) ==
    /\ Alive
    /\ Configured(LevelsWheel)
    /\ timewheels_' = tw
    /\ heap' = hp
    /\ op' = method
    /\ ret' = i
    /\ UNCHANGED <<now, interval_in_millisecond_, timer_id_, canceled_timer_ids_,
                   restart_timer_infos_, stop_flag_, thread_, stop_pc, wake_at, pushed,
                   tick_no, created, cancel_ever, reset_ever, reset_applied, discarded, calls,
                   last_req, applied, start_ret>>
    /\ UNCHANGED <<lockvars, poolvars, sflvars, thread_pool_>>

WheelAddTimer ==
    /\ Len(heap) < MaxWheelTimers
    /\ \E i \in Wheels, when \in WheelWhens :
           LET hp == Append(heap, TimeoutJob(Len(heap) + 1, when, 0))
           IN  WheelCall("AddTimer", i, AddTimer(timewheels_, i, Len(hp), hp, now), hp)

WheelIncrease ==
    \E i \in Wheels : WheelCall("Increase", i, Increase(timewheels_, i, heap, now), heap)

WheelPopCurrentSlot ==
    \E i \in Wheels : WheelCall("PopCurrentSlot", i, PopCurrentSlot(timewheels_, i), heap)

WheelClock == Configured(LevelsWheel) /\ Advance(1, MaxTimeWheel)

NextWheel ==
    \/ Setup(LevelsWheel)
    \/ WheelAddTimer
    \/ WheelIncrease
    \/ WheelPopCurrentSlot
    \/ WheelClock

SpecWheel == Init /\ [][NextWheel]_vars


\* A step of AddTimer called on the wheel ret', with the job Made.
AddTimerCalled == op' = "AddTimer" /\ Len(heap') = Len(heap) + 1

\* What is left until the job's due time, seen from wheel j: the due time
\* minus the time now, counted from the start of the current slot of wheel j
\* (the time the less-level wheels have gone through is added).
Remaining(j) ==
    heap'[Made].when_
        + (IF timewheels_[j].less_level_timewheel_ # 0
           THEN GetCurrentTime(timewheels_, timewheels_[j].less_level_timewheel_)
           ELSE 0)
        - now

Span(j) == timewheels_[j].interval_in_millisecond_

\* The wheel that keeps the job: the first one from the wheel of the call on
\* with at least one slot span left, or else the least wheel.
Keeper ==
    CHOOSE j \in ret'..Len(timewheels_) :
        /\ Remaining(j) >= Span(j) \/ j = Len(timewheels_)
        /\ \A k \in ret'..(j - 1) : Remaining(k) < Span(k)

\* C25: AddTimer called on a wheel puts the job in slot
\* (curr_slot_idx_ + remaining / span) mod slot_num_ of that wheel when at
\* least one slot span is left; otherwise it hands the job to the less-level
\* wheel when there is one; otherwise (least wheel) it puts the job in the
\* current slot.  The job is added to exactly one slot, whose index is in
\* [0, slot_num_), and nothing else changes.
C25_InsertPlacement ==
    [][AddTimerCalled =>
         LET j == Keeper
             n == IF Remaining(j) >= Span(j)
                  THEN (timewheels_[j].curr_slot_idx_ + Remaining(j) \div Span(j))
                           % timewheels_[j].slot_num_
                  ELSE timewheels_[j].curr_slot_idx_
         IN  /\ n \in 0..(timewheels_[j].slot_num_ - 1)
             /\ timewheels_' = [timewheels_ EXCEPT ![j].slots_[n] = Append(@, Made)]
             /\ BucketCount(timewheels_', Made) = 1]_vars

\* AddTimer has been called on the greatest wheel while the least wheel was
\* at slot 1 and the clock had moved: the job was handed down twice and is in
\* the current slot of the least wheel.
C25_Witness ==
    /\ op = "AddTimer"
    /\ ret = 1
    /\ now > 0
    /\ Len(timewheels_) = 3
    /\ timewheels_[3].curr_slot_idx_ = 1
    /\ \E timer \in 1..Len(heap) : InWheel(3, timer) = {<<3, 1, 1>>}


\* A step of Increase called on the wheel ret'.
IncreaseCalled == op' = "Increase" /\ timewheels_' # timewheels_

\* The wheels of tw that hold the timer.
WheelsOf(tw, timer) == {pl[1] : pl \in {q \in Places(tw) : tw[q[1]].slots_[q[2]][q[3]] = timer}}

\* C26: Increase called on a wheel moves its index on by one modulo slot_num_.
\* Exactly when the index wraps to 0 and the wheel has a greater-level wheel,
\* that wheel is increased once, its then current slot is emptied and every
\* timer that was in that slot is, in one place, in the increased wheel or a
\* lesser one; no timer is lost or doubled.  When the index does not wrap (or
\* there is no greater wheel) nothing but the index of the wheel changes.
C26_TickAndCascade ==
    [][IncreaseCalled =>
         LET i == ret'
             w == timewheels_[i]
             g == w.greater_level_timewheel_
             wraps == w.curr_slot_idx_ + 1 = w.slot_num_
         IN  /\ Ticked(i)
             /\ (timewheels_'[i].curr_slot_idx_ = 0) <=> wraps
             /\ IF wraps /\ g # 0
                THEN /\ Ticked(g)
                     /\ CurrentSlot(timewheels_', g) = <<>>
                     /\ \A timer \in Range(timewheels_[g].slots_[timewheels_'[g].curr_slot_idx_]) :
                            /\ WheelsOf(timewheels_', timer) # {}
                            /\ \A j \in WheelsOf(timewheels_', timer) : j >= i
                     /\ \A timer \in 1..Len(heap) :
                            BucketCount(timewheels_', timer) = BucketCount(timewheels_, timer)
                     /\ \A j \in (i + 1)..Len(timewheels_) :
                            timewheels_'[j].curr_slot_idx_ = timewheels_[j].curr_slot_idx_
                ELSE timewheels_' =
                         [timewheels_ EXCEPT ![i].curr_slot_idx_ = (@ + 1) % w.slot_num_]]_vars

\* Increase called on the least wheel has wrapped it and the wheel above it,
\* so that the greatest wheel was increased too; a timer is in the middle or
\* the least wheel and the current slot of the greatest wheel is empty.
C26_Witness ==
    /\ op = "Increase"
    /\ ret = 3
    /\ Len(timewheels_) = 3
    /\ timewheels_[3].curr_slot_idx_ = 0
    /\ timewheels_[2].curr_slot_idx_ = 0
    /\ timewheels_[1].curr_slot_idx_ = 1
    /\ CurrentSlot(timewheels_, 1) = <<>>
    /\ \E timer \in 1..Len(heap) :
           /\ heap[timer].when_ = 13
           /\ WheelsOf(timewheels_, timer) \in {{2}, {3}}


\* C27: a popped timer whose id has neither a recorded reset nor a recorded
\* cancel is pushed to the pool exactly once in that tick.  A one-shot timer
\* is then in no slot and unchanged; a repeated timer has its due time moved
\* on by its interval and is in exactly one slot again, the one AddTimer of
\* the greatest wheel gives (compared when it is the only timer popped).  A one-shot timer is pushed at most once in all,
\* and once it was pushed it is in no slot.
C27_DispatchStep ==
    /\ [][tick_no' = tick_no + 1 =>
            \A timer \in Range(PoppedSlot) :
                (/\ heap[timer].id_ \notin DOMAIN restart_timer_infos_
                 /\ heap[timer].id_ \notin canceled_timer_ids_)
                    => /\ Submitted(timer) = 1
                       /\ \E k \in (Len(pushed) + 1)..Len(pushed') :
                              /\ pushed'[k].timer = timer
                              /\ pushed'[k].at = now
                              /\ pushed'[k].when = heap[timer].when_
                       /\ timer \notin discarded'
                       /\ IF heap[timer].is_repeated_
                          THEN /\ heap'[timer] =
                                      [heap[timer] EXCEPT !.when_ = @ + heap[timer].interval_]
                               /\ BucketCount(timewheels_', timer) = 1
                               /\ Len(PoppedSlot) = 1 =>
                                      timewheels_' =
                                          AddTimer(PopCurrentSlot(Increased, GetLeastTimeWheel),
                                                   GetGreatestTimeWheel, timer, heap', now)
                          ELSE /\ heap'[timer] = heap[timer]
                               /\ BucketCount(timewheels_', timer) = 0]_vars
    /\ [](\A timer \in Timers :
              ~heap[timer].is_repeated_ =>
                  /\ PushCount(pushed, timer) <= 1
                  /\ PushCount(pushed, timer) = 1 => BucketCount(timewheels_, timer) = 0)

\* An untouched one-shot timer was pushed once and is in no slot, and an
\* untouched repeated timer was pushed, has its due time moved on by its
\* interval for each push and is in one slot.
C27_Witness ==
    /\ \E timer \in Timers :
           /\ ~heap[timer].is_repeated_
           /\ Untouched(timer)
           /\ PushCount(pushed, timer) = 1
           /\ BucketCount(timewheels_, timer) = 0
    /\ \E timer \in Timers :
           /\ heap[timer].is_repeated_
           /\ Untouched(timer)
           /\ PushCount(pushed, timer) > 0
           /\ heap[timer].when_ =
                  created[timer].when + PushCount(pushed, timer) * heap[timer].interval_
           /\ BucketCount(timewheels_, timer) = 1


(***************************************************************************)
(* Specification SpecLate: requests that come after the pop.  The          *)
(* scheduler has been running for long: the one-shot timer with id 1 was   *)
(* pushed by the tick before, and timer_id_ has gone through all its       *)
(* values since and is 1 again (the jobs made in between were one-shot and *)
(* are gone).  CancelTimer and ResetTimerAt are only called with the id of *)
(* a one-shot timer that was pushed already.                               *)
(***************************************************************************)
InitLate ==
    /\ now = 4
    /\ interval_in_millisecond_ = Levels[Len(Levels)].interval
    /\ timewheels_ = Hierarchy(Levels)
    /\ heap = <<TimeoutJob(1, 1, 0)>>
    /\ timer_id_ = 1
    /\ canceled_timer_ids_ = {}
    /\ restart_timer_infos_ = [id \in {} |-> 0]
    /\ stop_flag_ = FALSE
    /\ thread_ = "running"
    /\ stop_pc = "idle"
    /\ wake_at = 4
    /\ pushed = <<[timer |-> 1, id |-> 1, at |-> 2, when |-> 1, cancel_requested |-> FALSE]>>
    /\ tick_no = 2
    /\ created = <<[id |-> 1, at |-> 0, when |-> 1, interval |-> 0, levels |-> Len(Levels),
                    tick |-> 0, running |-> TRUE]>>
    /\ cancel_ever = {}
    /\ reset_ever = {}
    /\ reset_applied = {}
    /\ discarded = {}
    /\ calls = 0
    /\ last_req = [id \in {} |-> ""]
    /\ ret = 2 ^ IdBits - 1
    /\ op = "CreateTimerAt"
    /\ applied = <<>>
    /\ start_ret = "true"
    /\ thread_pool_ = "pool1"
    /\ mutex_ = "free"
    /\ mtx_job_q_ = "free"
    /\ jobs_ = <<>>
    /\ PoolMembers
    /\ LockMembers
    /\ pc = [t \in Threads |-> "idle"]

\* The ids of the one-shot timers that were pushed.
ConsumedIds == {heap[timer].id_ : timer \in Consumed}

LateCancelTimer == \E id \in ConsumedIds : CancelTimer(id)
LateResetTimerAt == \E id \in ConsumedIds, when \in ResetWhens : ResetTimerAt(id, when)
LateCreateTimerAfter == Alive /\ \E delay \in Delays : CreateTimerAfter(delay)
LateCreateTimerEvery == Alive /\ \E interval \in Intervals : CreateTimerEvery(interval)
LateClock == thread_ = "running" /\ Advance(interval_in_millisecond_, MaxTimeLate + 4)

NextLate ==
    \/ LateCancelTimer
    \/ LateResetTimerAt
    \/ LateCreateTimerAfter
    \/ LateCreateTimerEvery
    \/ DriverTick
    \/ LateClock

SpecLate == InitLate /\ [][NextLate]_vars

\* C28: a CancelTimer or ResetTimerAt that comes after the tick that popped
\* the timer with that id does not change what that tick did (what was
\* pushed stays pushed), and when the timer was one-shot the request never
\* acts on any timer: no timer is dropped or given another due time.
C28_LateRequest ==
    /\ [][Called({"CancelTimer", "ResetTimerAt"}) =>
            UNCHANGED <<pushed, heap, timewheels_, discarded, reset_applied>>]_vars
    /\ [](discarded = {} /\ reset_applied = {})


(***************************************************************************)
(* Specification SpecJob: TimeoutJob::UpdateExpirationTime called on the   *)
(* jobs the scheduler made, with a new due time that is negative, 0 or     *)
(* positive, and without an argument.                                      *)
(***************************************************************************)
JobWhens == {-3, 0, 5}

\* timer->UpdateExpirationTime(new_when); explicit tells whether the caller
\* wrote the argument, the default argument is 0.
JobCall(timer, new_when, explicit) ==
    /\ calls < MaxJobCalls
    /\ heap' = [heap EXCEPT ![timer] = UpdateExpirationTime(@, new_when)]
    /\ applied' = IF explicit
                  THEN Append(applied, [timer |-> timer,
                                        when |-> new_when,
                                        pushes |-> PushLogCount(pushed, timer)])
                  ELSE applied
    /\ calls' = calls + 1
    /\ op' = IF explicit THEN "UpdateExpirationTime(new_when)" ELSE "UpdateExpirationTime()"
    /\ ret' = timer
    /\ UNCHANGED <<now, interval_in_millisecond_, timewheels_, timer_id_, canceled_timer_ids_,
                   restart_timer_infos_, stop_flag_, thread_, stop_pc, wake_at, pushed,
                   tick_no, created, cancel_ever, reset_ever, reset_applied, discarded,
                   last_req, start_ret>>
    /\ UNCHANGED <<lockvars, poolvars, sflvars, thread_pool_>>

JobUpdateExpirationTime == \E timer \in Timers, new_when \in JobWhens : JobCall(timer, new_when, TRUE)
JobUpdateExpirationTimeDefault == \E timer \in Timers : JobCall(timer, 0, FALSE)

NextJob ==
    \/ Setup(Levels)
    \/ ResetCreateTimerEvery
    \/ ResetCreateTimerAfter
    \/ JobUpdateExpirationTime
    \/ JobUpdateExpirationTimeDefault

SpecJob == Init /\ [][NextJob]_vars

\* C29: a call of UpdateExpirationTime with a new due time w makes the job's
\* due time w, whatever w is (0 and negative included); a call without a new
\* due time adds the job's interval to the due time.
C29_AdvanceDueTime ==
    [][\A timer \in Timers :
           /\ (Called({"UpdateExpirationTime(new_when)"}) /\ ret' = timer) =>
                  heap'[timer].when_ = applied'[Len(applied')].when
           /\ (Called({"UpdateExpirationTime()"}) /\ ret' = timer) =>
                  heap'[timer].when_ = heap[timer].when_ + heap[timer].interval_]_vars


\* The time wheel j has gone through in its current revolution, and the sum
\* of these times over a set of wheels.
TimeOf(j) == timewheels_[j].curr_slot_idx_ * timewheels_[j].interval_in_millisecond_

RECURSIVE SumOver(_)
SumOver(S) ==
    IF S = {} THEN 0
    ELSE LET j == CHOOSE k \in S : TRUE
         IN  TimeOf(j) + SumOver(S \ {j})

\* The wheels after wheel i in timewheels_ (appended later: the finer ones)
\* and the wheels before it (the coarser ones).
Finer(i) == (i + 1)..Len(timewheels_)
Coarser(i) == 1..(i - 1)

\* The job made by the step is in slot n of wheel j, where the offset of
\* wheel j is taken over the set S of wheels.
PlacedWith(j, n, S) ==
    LET diff == heap'[Made].when_ + SumOver(S) - now
    IN  IF diff >= Span(j)
        THEN n = (timewheels_[j].curr_slot_idx_ + diff \div Span(j)) % timewheels_[j].slot_num_
        ELSE j = Len(timewheels_) /\ n = timewheels_[j].curr_slot_idx_

\* C30 as stated: GetCurrentTime of a wheel is curr_slot_idx_ times
\* interval_in_millisecond_ of the wheel plus the same of every coarser wheel
\* up to the coarsest, and AddTimer takes the time of the coarser wheels as
\* the offset of the wheel it places the job in.
C30_CoarserTime ==
    /\ [](\A i \in Wheels : GetCurrentTime(timewheels_, i) = TimeOf(i) + SumOver(Coarser(i)))
    /\ [][AddTimerCalled =>
            \A j \in Wheels : \A n \in DOMAIN timewheels_[j].slots_ :
                Made \in Range(timewheels_'[j].slots_[n])
                    => PlacedWith(j, n, Coarser(j))]_vars

\* C30, amended: GetCurrentTime of a wheel is curr_slot_idx_ times
\* interval_in_millisecond_ of the wheel plus the same of every finer wheel
\* down to the least wheel (it is 0 + ... when the wheel is the least one),
\* and the offset AddTimer uses for the wheel it places the job in is the
\* GetCurrentTime of that wheel's finer neighbour: the time of the finer
\* wheels.
C30_FinerTime ==
    /\ [](\A i \in Wheels : GetCurrentTime(timewheels_, i) = TimeOf(i) + SumOver(Finer(i)))
    /\ [][AddTimerCalled =>
            \A j \in Wheels : \A n \in DOMAIN timewheels_[j].slots_ :
                Made \in Range(timewheels_'[j].slots_[n])
                    => PlacedWith(j, n, Finer(j))]_vars

\* AddTimer was called on the greatest wheel at time 3 for a job due at 6
\* while the least wheel was at slot 1: with the 2 ms the least wheel has gone
\* through, 5 ms are left for the middle wheel, which keeps the job.
C30_Witness ==
    /\ op = "AddTimer"
    /\ ret = 1
    /\ now = 3
    /\ Len(timewheels_) = 3
    /\ timewheels_[3].curr_slot_idx_ = 1
    /\ timewheels_[2].curr_slot_idx_ = 0
    /\ GetCurrentTime(timewheels_, 1) = timewheels_[1].curr_slot_idx_ * 8 + 2
    /\ \E timer \in 1..Len(heap) :
           /\ heap[timer].when_ = 6
           /\ InWheel(2, timer) = {<<2, 1, 1>>}


(***************************************************************************)
(* ThreadPool (include/shkwon/thread_pool/thread_pool.hpp).  A job is the  *)
(* number of its Push.  Each step is what a thread does between two        *)
(* operations on mtx_job_q_, cv_job_q_ or stop_all_:                       *)
(*   worker  "idle" (not yet in its loop) | "w_check" (holds the mutex,    *)
(*           about to evaluate the wait predicate) | "w_wait" (predicate   *)
(*           false, about to block) | "w_blocked" | "w_woken" | "w_test"   *)
(*           (predicate true, line 65) | "w_run" | "w_exit"                *)
(*   pusher  "idle" | "p_lock" | "p_queue" | "p_notify"; the owner also    *)
(*           "d_notify" | "d_join" | "d_done" in the destructor            *)
(* stop_all_ is a plain bool that the destructor writes without the mutex: *)
(* a read that races with the write may still give false.                  *)
(***************************************************************************)
PoolWorkers == {"w1", "w2"}
Pushers == {"owner", "p2"}
PoolThreads == PoolWorkers \cup Pushers

\* The values a read of stop_all_ can give.
ReadStopAll == IF stop_all_ THEN {TRUE, FALSE} ELSE {FALSE}

\* Line 64: the predicate of the wait.
WaitPredicate(q, stop) == q # <<>> \/ stop

\* A test for the return that does not look at the queue.
ExitNoDrain(q, stop) == stop

\* Line 65: the test for the return.
Exit(q, stop) == stop /\ q = <<>>

\* A worker that takes the job pushed last.
Back(q) == q[Len(q)]

\* Line 70: jobs_.front().
Front(q) == Head(q)

\* The job a worker has taken last.
RECURSIVE JobOf(_, _)
JobOf(log, w) ==
    IF log = <<>> THEN 0
    ELSE IF log[Len(log)].by = w THEN log[Len(log)].job
    ELSE JobOf(SubSeq(log, 1, Len(log) - 1), w)

\* Push, line 40: the check of stop_all_ (throws when it is set).
PushBegin(t) ==
    /\ pc[t] = "idle"
    /\ pc["owner"] # "d_done"
    /\ Len(enqueued) < MaxPushes
    /\ \E stop \in ReadStopAll :
           Goto(t, IF stop THEN "idle" ELSE "p_lock")
    /\ UNCHANGED <<mutex_, mtx_job_q_, jobs_>>
    /\ UNCHANGED <<datavars, poolvars, sflvars, thread_pool_>>

\* Line 50: lock_guard on mtx_job_q_.
PushLock(t) ==
    /\ pc[t] = "p_lock"
    /\ mtx_job_q_ = "free"
    /\ mtx_job_q_' = t
    /\ Goto(t, "p_queue")
    /\ UNCHANGED <<mutex_, jobs_>>
    /\ UNCHANGED <<datavars, poolvars, sflvars, thread_pool_>>

\* Lines 51-52: jobs_.push and the end of the guarded block.
PushEnqueue(t) ==
    /\ pc[t] = "p_queue"
    /\ LET job == Len(enqueued) + 1
       IN  /\ jobs_' = Append(jobs_, job)
           /\ enqueued' = Append(enqueued, [job |-> job, by |-> t, stopping |-> stop_all_])
    /\ mtx_job_q_' = "free"
    /\ Goto(t, "p_notify")
    /\ UNCHANGED <<mutex_, stop_all_, cv_job_q_, taken, ran>>
    /\ UNCHANGED <<datavars, sflvars, thread_pool_>>

\* Line 53: cv_job_q_.notify_one() wakes one of the blocked workers, if any.
PushNotify(t) ==
    /\ pc[t] = "p_notify"
    /\ IF cv_job_q_ = {}
       THEN /\ Goto(t, "idle")
            /\ UNCHANGED cv_job_q_
       ELSE \E w \in cv_job_q_ :
                /\ cv_job_q_' = cv_job_q_ \ {w}
                /\ pc' = [pc EXCEPT ![t] = "idle", ![w] = "w_woken"]
    /\ UNCHANGED <<mutex_, mtx_job_q_, jobs_, stop_all_, enqueued, taken, ran>>
    /\ UNCHANGED <<datavars, sflvars, thread_pool_>>

\* WorkerThread, line 63: unique_lock on mtx_job_q_; also the lock taken
\* again by a worker that leaves cv_job_q_.wait.
PoolWorkerLock(w) ==
    /\ pc[w] \in {"idle", "w_woken"}
    /\ mtx_job_q_ = "free"
    /\ mtx_job_q_' = w
    /\ Goto(w, "w_check")
    /\ UNCHANGED <<mutex_, jobs_>>
    /\ UNCHANGED <<datavars, poolvars, sflvars, thread_pool_>>

\* Line 64: the predicate is evaluated with the mutex held.
PoolWorkerCheck(w) ==
    /\ pc[w] = "w_check"
    /\ \E stop \in ReadStopAll :
           Goto(w, IF WaitPredicate(jobs_, stop) THEN "w_test" ELSE "w_wait")
    /\ UNCHANGED <<mutex_, mtx_job_q_, jobs_>>
    /\ UNCHANGED <<datavars, poolvars, sflvars, thread_pool_>>

\* Line 64: wait(lock) gives the mutex back and blocks, in one step.
PoolWorkerBlock(w) ==
    /\ pc[w] = "w_wait"
    /\ mtx_job_q_' = "free"
    /\ cv_job_q_' = cv_job_q_ \cup {w}
    /\ Goto(w, "w_blocked")
    /\ UNCHANGED <<mutex_, jobs_, stop_all_, enqueued, taken, ran>>
    /\ UNCHANGED <<datavars, sflvars, thread_pool_>>

\* A wait may end without a notification (spurious wake-up).
PoolWorkerSpurious(w) ==
    /\ pc[w] = "w_blocked"
    /\ cv_job_q_' = cv_job_q_ \ {w}
    /\ Goto(w, "w_woken")
    /\ UNCHANGED <<mutex_, mtx_job_q_, jobs_, stop_all_, enqueued, taken, ran>>
    /\ UNCHANGED <<datavars, sflvars, thread_pool_>>

\* Lines 65-72: return when stopped and empty (the unique_lock gives the
\* mutex back), otherwise take the front job, pop and unlock.
PoolWorkerTake(w) ==
    /\ pc[w] = "w_test"
    /\ \E stop \in ReadStopAll :
           IF Exit(jobs_, stop)
           THEN /\ Goto(w, "w_exit")
                /\ UNCHANGED <<jobs_, taken>>
           ELSE /\ jobs_ # <<>>
                /\ taken' = Append(taken, [job |-> Front(jobs_), by |-> w])
                /\ jobs_' = Tail(jobs_)
                /\ Goto(w, "w_run")
    /\ mtx_job_q_' = "free"
    /\ UNCHANGED <<mutex_, stop_all_, cv_job_q_, enqueued, ran>>
    /\ UNCHANGED <<datavars, sflvars, thread_pool_>>

\* Line 74: job().
PoolWorkerRun(w) ==
    /\ pc[w] = "w_run"
    /\ ran' = Append(ran, [job |-> JobOf(taken, w), by |-> w])
    /\ Goto(w, "idle")
    /\ UNCHANGED <<mutex_, mtx_job_q_, jobs_, stop_all_, cv_job_q_, enqueued, taken>>
    /\ UNCHANGED <<datavars, sflvars, thread_pool_>>

\* ~ThreadPool, line 28: stop_all_ = true, without the mutex.
DtorBegin ==
    /\ pc["owner"] = "idle"
    /\ stop_all_' = TRUE
    /\ Goto("owner", "d_notify")
    /\ UNCHANGED <<mutex_, mtx_job_q_, jobs_, cv_job_q_, enqueued, taken, ran>>
    /\ UNCHANGED <<datavars, sflvars, thread_pool_>>

\* Line 29: cv_job_q_.notify_all() wakes the workers that are blocked now.
DtorNotify ==
    /\ pc["owner"] = "d_notify"
    /\ cv_job_q_' = {}
    /\ pc' = [t \in DOMAIN pc |->
                 IF t = "owner" THEN "d_join"
                 ELSE IF t \in cv_job_q_ THEN "w_woken" ELSE pc[t]]
    /\ UNCHANGED <<mutex_, mtx_job_q_, jobs_, stop_all_, enqueued, taken, ran>>
    /\ UNCHANGED <<datavars, sflvars, thread_pool_>>

\* Lines 31-34: the joins return when every worker has returned.
DtorJoin ==
    /\ pc["owner"] = "d_join"
    /\ \A w \in PoolWorkers : pc[w] = "w_exit"
    /\ Goto("owner", "d_done")
    /\ UNCHANGED <<mutex_, mtx_job_q_, jobs_>>
    /\ UNCHANGED <<datavars, poolvars, sflvars, thread_pool_>>

(***************************************************************************)
(* Specification SpecPool: a pool of two workers, two threads that push    *)
(* and the owner that destroys the pool.                                   *)
(***************************************************************************)
InitPool == Objects(DefaultInterval, "none", PoolThreads)

PoolPushBegin == \E t \in Pushers : PushBegin(t)
PoolPushLock == \E t \in Pushers : PushLock(t)
PoolPushEnqueue == \E t \in Pushers : PushEnqueue(t)
PoolPushNotify == \E t \in Pushers : PushNotify(t)
PoolLock == \E w \in PoolWorkers : PoolWorkerLock(w)
PoolCheck == \E w \in PoolWorkers : PoolWorkerCheck(w)
PoolBlock == \E w \in PoolWorkers : PoolWorkerBlock(w)
PoolSpurious == \E w \in PoolWorkers : PoolWorkerSpurious(w)
PoolTake == \E w \in PoolWorkers : PoolWorkerTake(w)
PoolRun == \E w \in PoolWorkers : PoolWorkerRun(w)

NextPool ==
    \/ PoolPushBegin
    \/ PoolPushLock
    \/ PoolPushEnqueue
    \/ PoolPushNotify
    \/ PoolLock
    \/ PoolCheck
    \/ PoolBlock
    \/ PoolSpurious
    \/ PoolTake
    \/ PoolRun
    \/ DtorBegin
    \/ DtorNotify
    \/ DtorJoin

SpecPool == InitPool /\ [][NextPool]_vars


\* How often a job is in a log.
Times(log, job) == Cardinality({k \in 1..Len(log) : log[k].job = job})

C32_DrainOnShutdown ==
    /\ [][\A w \in PoolWorkers :
              (pc'[w] = "w_exit" /\ pc[w] # "w_exit") => (stop_all_ /\ jobs_ = <<>>)]_vars
    /\ [](pc["owner"] = "d_done" =>
              \A k \in 1..Len(enqueued) :
                  ~enqueued[k].stopping => Times(ran, enqueued[k].job) = 1)

\* The destructor has returned after three jobs were pushed before it began,
\* the last of them by the owner; all three have been run.
C32_Witness ==
    /\ pc["owner"] = "d_done"
    /\ Len(enqueued) = 3
    /\ \A k \in 1..3 : ~enqueued[k].stopping
    /\ enqueued[3].by = "owner"
    /\ Len(ran) = 3


(***************************************************************************)
(* Specification SpecPoolLive: SpecPool with threads that keep running.    *)
(* Every thread takes its next step when it can; a thread that waits for   *)
(* mtx_job_q_ gets it when the mutex is free again and again.  A blocked   *)
(* worker is woken by a notification; a spurious wake-up may happen but is *)
(* not promised.                                                           *)
(***************************************************************************)
SpecPoolLive ==
    /\ InitPool
    /\ [][NextPool]_vars
    /\ \A w \in PoolWorkers :
           /\ SF_vars(PoolWorkerLock(w))
           /\ WF_vars(PoolWorkerCheck(w))
           /\ WF_vars(PoolWorkerBlock(w))
           /\ WF_vars(PoolWorkerTake(w))
           /\ WF_vars(PoolWorkerRun(w))
    /\ \A t \in Pushers :
           /\ SF_vars(PushLock(t))
           /\ WF_vars(PushEnqueue(t))
           /\ WF_vars(PushNotify(t))
    /\ WF_vars(DtorNotify)
    /\ WF_vars(DtorJoin)

\* C33: once the destructor has set stop_all_, every worker returns and the
\* destructor's joins return.
C33_ShutdownTerminates ==
    stop_all_ ~> (/\ \A w \in PoolWorkers : pc[w] = "w_exit"
                  /\ pc["owner"] = "d_done")


C37_SingleDriver ==
    /\ [][(thread_' = "running" /\ thread_ # "running") => thread_ = "none"]_vars
    /\ [][thread_ = "running" => thread_pool_' = thread_pool_]_vars


(***************************************************************************)
(* Specification SpecBoth: the wheels of Spec, timers, and both            *)
(* CancelTimer and ResetTimerAt (with a due time that is positive or 0)    *)
(* for their ids.                                                          *)
(***************************************************************************)
BothCancelTimer == Configured(Levels) /\ \E id \in Ids : CancelTimer(id)
BothClock == thread_ = "running" /\ Advance(interval_in_millisecond_, MaxTimeBoth)

NextBoth ==
    \/ Setup(Levels)
    \/ ResetCreateTimerEvery
    \/ ResetCreateTimerAfter
    \/ ResetResetTimerAt
    \/ BothCancelTimer
    \/ ResetStart
    \/ DriverTick
    \/ BothClock

SpecBoth == Init /\ [][NextBoth]_vars

\* C35: a tick that pops a timer whose id has both a recorded reset and a
\* recorded cancel applies the reset: the timer is not pushed, gets the
\* recorded due time, is in exactly one slot again, the reset entry is
\* removed and the cancel entry stays.  At the next pop of that timer the
\* cancel is applied: the timer is dropped, the cancel entry removed, and the
\* timer is never pushed after the first of the two pops.
C35_ResetThenCancel ==
    [][tick_no' = tick_no + 1 =>
         \A timer \in Range(PoppedSlot) :
             LET id == heap[timer].id_
             IN  /\ (id \in canceled_timer_ids_ /\ id \in DOMAIN restart_timer_infos_) =>
                        /\ Submitted(timer) = 0
                        /\ heap'[timer].when_ = restart_timer_infos_[id]
                        /\ BucketCount(timewheels_', timer) = 1
                        /\ id \notin DOMAIN restart_timer_infos_'
                        /\ id \in canceled_timer_ids_'
                        /\ timer \notin discarded'
                 /\ (timer \in reset_applied /\ id \in canceled_timer_ids_) =>
                        /\ Submitted(timer) = 0
                        /\ timer \in discarded'
                        /\ id \notin canceled_timer_ids_'
                        /\ BucketCount(timewheels_', timer) = 0]_vars


(***************************************************************************)
(* StarveFreeLock (src/unnamed/part_004).  Every method runs under the     *)
(* lock's own mutex_ from its first line to its end or to the point where  *)
(* a wait blocks (which gives the mutex back), so each of these pieces is  *)
(* one step.  Where a thread is:                                           *)
(*   "idle" | "r_blocked" (in reader_cv_.wait) | "r_woken" | "shared"       *)
(*   | "w_blocked" (in writer_cv_.wait) | "w_woken" | "exclusive"           *)
(* A thread calls unlock_shared only while it holds the lock shared and    *)
(* unlock only while it holds it exclusively.                              *)
(***************************************************************************)
LockThreads == {"t1", "t2", "t3"}

\* A reader that does not look at the waiting writers.
ReaderPredicateBarging(waiting, writing) == ~writing

\* Line 19: the predicate of reader_cv_.wait.
ReaderPredicate(waiting, writing) == waiting = 0 /\ ~writing

\* A writer that does not look at the readers.
WriterPredicateNoReaders(readers, writing) == ~writing

\* Line 36: the predicate of writer_cv_.wait.
WriterPredicate(readers, writing) == readers = 0 /\ ~writing

\* notify_one on a condition variable wakes one of the threads blocked in
\* it, w; with nobody blocked it does nothing (w is "nobody").
NotifyOne(cv, w) == IF cv = {} THEN w = "nobody" ELSE w \in cv

Woken(t, wake, label) == IF t \in wake THEN label ELSE pc[t]

\* lock_shared, lines 18-20: admitted when the predicate holds, otherwise
\* blocked in reader_cv_.wait.  from is "idle" for the call and "r_woken"
\* for a thread that leaves the wait and tests the predicate again.
TryShared(t, from) ==
    /\ pc[t] = from
    /\ IF ReaderPredicate(writer_waiting_count_, writing_)
       THEN /\ reader_count_' = reader_count_ + 1
            /\ Goto(t, "shared")
            /\ UNCHANGED reader_cv_
       ELSE /\ reader_cv_' = reader_cv_ \cup {t}
            /\ Goto(t, "r_blocked")
            /\ UNCHANGED reader_count_
    /\ UNCHANGED <<writer_waiting_count_, writing_, writer_cv_>>
    /\ UNCHANGED <<mutex_, mtx_job_q_, jobs_>>
    /\ UNCHANGED <<datavars, poolvars, thread_pool_>>

lock_shared(t) == TryShared(t, "idle")
RetryShared(t) == TryShared(t, "r_woken")

\* unlock_shared, lines 25-29: the last reader notifies one waiting writer.
unlock_shared(t, w) ==
    /\ pc[t] = "shared"
    /\ reader_count_' = reader_count_ - 1
    /\ IF reader_count_ - 1 = 0 /\ writer_waiting_count_ > 0
       THEN /\ NotifyOne(writer_cv_, w)
            /\ writer_cv_' = writer_cv_ \ {w}
            /\ pc' = [x \in DOMAIN pc |->
                         IF x = t THEN "idle" ELSE Woken(x, {w}, "w_woken")]
       ELSE /\ w = "nobody"
            /\ Goto(t, "idle")
            /\ UNCHANGED writer_cv_
    /\ UNCHANGED <<writer_waiting_count_, writing_, reader_cv_>>
    /\ UNCHANGED <<mutex_, mtx_job_q_, jobs_>>
    /\ UNCHANGED <<datavars, poolvars, thread_pool_>>

\* lock, lines 34-38: the writer counts itself as waiting, then takes the
\* lock when the predicate holds, otherwise blocks in writer_cv_.wait.
lock(t) ==
    /\ pc[t] = "idle"
    /\ IF WriterPredicate(reader_count_, writing_)
       THEN /\ writing_' = TRUE
            /\ Goto(t, "exclusive")
            /\ UNCHANGED <<writer_waiting_count_, writer_cv_>>
       ELSE /\ writer_waiting_count_' = writer_waiting_count_ + 1
            /\ writer_cv_' = writer_cv_ \cup {t}
            /\ Goto(t, "w_blocked")
            /\ UNCHANGED writing_
    /\ UNCHANGED <<reader_count_, reader_cv_>>
    /\ UNCHANGED <<mutex_, mtx_job_q_, jobs_>>
    /\ UNCHANGED <<datavars, poolvars, thread_pool_>>

\* Lines 36-38 for a writer that leaves the wait: the predicate again.
RetryLock(t) ==
    /\ pc[t] = "w_woken"
    /\ IF WriterPredicate(reader_count_, writing_)
       THEN /\ writer_waiting_count_' = writer_waiting_count_ - 1
            /\ writing_' = TRUE
            /\ Goto(t, "exclusive")
            /\ UNCHANGED writer_cv_
       ELSE /\ writer_cv_' = writer_cv_ \cup {t}
            /\ Goto(t, "w_blocked")
            /\ UNCHANGED <<writer_waiting_count_, writing_>>
    /\ UNCHANGED <<reader_count_, reader_cv_>>
    /\ UNCHANGED <<mutex_, mtx_job_q_, jobs_>>
    /\ UNCHANGED <<datavars, poolvars, thread_pool_>>

\* unlock, lines 43-52: one waiting writer is notified when a writer is
\* counted as waiting, otherwise all blocked readers.
unlock(t, w) ==
    /\ pc[t] = "exclusive"
    /\ writing_' = FALSE
    /\ IF writer_waiting_count_ > 0
       THEN /\ NotifyOne(writer_cv_, w)
            /\ writer_cv_' = writer_cv_ \ {w}
            /\ pc' = [x \in DOMAIN pc |->
                         IF x = t THEN "idle" ELSE Woken(x, {w}, "w_woken")]
            /\ UNCHANGED reader_cv_
       ELSE /\ w = "nobody"
            /\ reader_cv_' = {}
            /\ pc' = [x \in DOMAIN pc |->
                         IF x = t THEN "idle" ELSE Woken(x, reader_cv_, "r_woken")]
            /\ UNCHANGED writer_cv_
    /\ UNCHANGED <<reader_count_, writer_waiting_count_>>
    /\ UNCHANGED <<mutex_, mtx_job_q_, jobs_>>
    /\ UNCHANGED <<datavars, poolvars, thread_pool_>>

\* A wait may end without a notification (spurious wake-up).
SpuriousWake(t) ==
    /\ pc[t] \in {"r_blocked", "w_blocked"}
    /\ reader_cv_' = reader_cv_ \ {t}
    /\ writer_cv_' = writer_cv_ \ {t}
    /\ Goto(t, IF pc[t] = "r_blocked" THEN "r_woken" ELSE "w_woken")
    /\ UNCHANGED <<reader_count_, writer_waiting_count_, writing_>>
    /\ UNCHANGED <<mutex_, mtx_job_q_, jobs_>>
    /\ UNCHANGED <<datavars, poolvars, thread_pool_>>

(***************************************************************************)
(* Specification SpecRW: three threads that take the lock shared or        *)
(* exclusively again and again.  A thread that holds the lock releases it, *)
(* a thread that was woken tests its predicate again, a woken thread whose *)
(* predicate holds again and again is admitted, and a thread that is       *)
(* blocked at notify_one again and again is the one woken some time.       *)
(* Nothing is promised about new calls and about spurious wake-ups.        *)
(***************************************************************************)
InitRW == Objects(DefaultInterval, "none", LockThreads)

Wakeable == LockThreads \cup {"nobody"}

Admitted(t) ==
    \/ RetryShared(t) /\ ReaderPredicate(writer_waiting_count_, writing_)
    \/ RetryLock(t) /\ WriterPredicate(reader_count_, writing_)

Notified(w) == \E t \in LockThreads : unlock_shared(t, w) \/ unlock(t, w)

RWLockShared == \E t \in LockThreads : lock_shared(t)
RWRetryShared == \E t \in LockThreads : RetryShared(t)
RWUnlockShared == \E t \in LockThreads, w \in Wakeable : unlock_shared(t, w)
RWLock == \E t \in LockThreads : lock(t)
RWRetryLock == \E t \in LockThreads : RetryLock(t)
RWUnlock == \E t \in LockThreads, w \in Wakeable : unlock(t, w)
RWSpuriousWake == \E t \in LockThreads : SpuriousWake(t)

NextRW ==
    \/ RWLockShared
    \/ RWRetryShared
    \/ RWUnlockShared
    \/ RWLock
    \/ RWRetryLock
    \/ RWUnlock
    \/ RWSpuriousWake

SpecRW ==
    /\ InitRW
    /\ [][NextRW]_vars
    /\ \A t \in LockThreads :
           /\ WF_vars(\E w \in Wakeable : unlock_shared(t, w))
           /\ WF_vars(\E w \in Wakeable : unlock(t, w))
           /\ WF_vars(RetryShared(t))
           /\ WF_vars(RetryLock(t))
           /\ SF_vars(Admitted(t))
           /\ SF_vars(Notified(t))


Holding(label) == {t \in LockThreads : pc[t] = label}
Blocked(t, in_wait, woken) == pc[t] \in {in_wait, woken}

\* C38: at most one thread holds the lock exclusively, and while one does
\* no thread holds it shared: reader_count_ is 0 whenever writing_ is true.
\* reader_count_ and writer_waiting_count_ are never negative; they count
\* the threads that hold the lock shared and the writers inside the wait.
C38_MutualExclusion ==
    /\ Cardinality(Holding("exclusive")) <= 1
    /\ Holding("exclusive") # {} => Holding("shared") = {}
    /\ writing_ => reader_count_ = 0
    /\ writing_ <=> Holding("exclusive") # {}
    /\ reader_count_ >= 0
    /\ writer_waiting_count_ >= 0
    /\ reader_count_ = Cardinality(Holding("shared"))
    /\ writer_waiting_count_ =
           Cardinality(Holding("w_blocked") \cup Holding("w_woken"))

\* A writer holds the lock while a second writer and a reader are blocked.
C38_Witness ==
    /\ writing_
    /\ Holding("exclusive") # {}
    /\ Holding("w_blocked") # {}
    /\ Holding("r_blocked") # {}

C40_ReaderProgress ==
    \A t \in LockThreads :
        Blocked(t, "r_blocked", "r_woken") ~> pc[t] = "shared"


(***************************************************************************)
(* Specification SpecRepeat: a driver that ticks for ever.  The wheels are *)
(* those of Spec; repeated timers with intervals below the span of the     *)
(* wheels (8 ms) are created and cancelled before and between the ticks.   *)
(* The driver is punctual: between two ticks the clock advances by one     *)
(* tick.  The code reads due times only as differences to the clock        *)
(* (AddTimer: when_ - now), so the state is kept relative to the time of   *)
(* the tick: after each tick all due times are moved back by one tick and  *)
(* now and wake_at stay at 0.  A TimeoutJob that is in no slot any more    *)
(* is destroyed with its last TimerPtr; its due time is kept as 0.  pushed *)
(* holds the pushes of the last tick only, and ticks are not counted.      *)
(***************************************************************************)
RepeatIntervals == {3, 5}

\* The jobs after the clock has advanced by step, relative to the new time.
Rebased(hp, tw, step) ==
    [timer \in DOMAIN hp |->
        IF BucketCount(tw, timer) > 0
        THEN [hp[timer] EXCEPT !.when_ = @ - step]
        ELSE [hp[timer] EXCEPT !.when_ = 0]]

\* The driver is at the top of its loop and goes on (lines 166-173).
TickDue == thread_ = "running" /\ now >= wake_at /\ ~stop_flag_

\* One iteration of the driver loop (lines 166-207) and the sleep up to the
\* next one.
RepeatTick ==
    /\ TickDue
    /\ LET st == TickResult
       IN  /\ timewheels_' = st.tw
           /\ heap' = Rebased(st.heap, st.tw, interval_in_millisecond_)
           /\ canceled_timer_ids_' = st.canceled
           /\ restart_timer_infos_' = st.restart
           /\ pushed' = SubSeq(st.pushed, Len(pushed) + 1, Len(st.pushed))
           /\ reset_applied' = st.reset_applied
           /\ discarded' = st.discarded
           /\ applied' = st.applied
    /\ UNCHANGED <<now, wake_at, tick_no>>
    /\ UNCHANGED <<interval_in_millisecond_, timer_id_, stop_flag_, thread_, stop_pc,
                   created, cancel_ever, reset_ever, calls, last_req>>
    /\ UNCHANGED <<ret, op, start_ret>>
    /\ UNCHANGED <<lockvars, poolvars, sflvars, thread_pool_>>

RepeatCreateTimerEvery ==
    Configured(Levels) /\ \E interval \in RepeatIntervals : CreateTimerEvery(interval)
RepeatCancelTimer == Configured(Levels) /\ \E id \in Ids : CancelTimer(id)
RepeatStart == Configured(Levels) /\ thread_ = "none" /\ Start

NextRepeat ==
    \/ Setup(Levels)
    \/ RepeatCreateTimerEvery
    \/ RepeatCancelTimer
    \/ RepeatStart
    \/ RepeatTick

\* The driver thread runs its loop for ever, no Stop is called here: weak
\* fairness of the tick, WF_vars(RepeatTick), with ENABLED <<RepeatTick>>_vars
\* written as TickDue (a tick always moves curr_slot_idx_ of the least wheel).
FairTick == []<>(~TickDue) \/ []<><<RepeatTick>>_vars

SpecRepeat == Init /\ [][NextRepeat]_vars /\ FairTick

\* A repeated timer the running driver has and no CancelTimer was called for.
Kept(timer) ==
    /\ timer \in Timers
    /\ heap[timer].is_repeated_
    /\ heap[timer].id_ \notin cancel_ever

\* C34: a repeated timer that is never cancelled is pushed to the pool in
\* infinitely many ticks of a driver that keeps ticking; it is in exactly
\* one slot all the time, so also after each of its dispatches.
C34_RepeatForever ==
    /\ \A timer \in 1..MaxTimers :
           []<>((Kept(timer) /\ thread_ = "running") => PushCount(pushed, timer) = 1)
    /\ [](\A timer \in Timers : Kept(timer) => BucketCount(timewheels_, timer) = 1)

\* Two kept repeated timers with different intervals, both pushed in the
\* last tick and both in a slot again.
C34_Witness ==
    /\ thread_ = "running"
    /\ Len(heap) = 2
    /\ \A timer \in Timers :
           /\ Kept(timer)
           /\ PushCount(pushed, timer) = 1
           /\ BucketCount(timewheels_, timer) = 1
    /\ heap[1].interval_ # heap[2].interval_

====
